-------------------------- MODULE ThreadPool_proofs --------------------------
(***************************************************************************)
(* For every number of threads and every set of operations: the variables  *)
(* of ThreadPool keep their types, a worker that is blocked can be found   *)
(* by whoever has to wake it, queued work is never left behind while all   *)
(* the workers sleep, and an operation is in one place at a time: in one   *)
(* queue, in one hand, or finished.                                        *)
(***************************************************************************)
EXTENDS ThreadPool, ListLemmas

\* A thread that looks for a sleeper looks at a worker; a worker that runs
\* an operation, or is about to, has it in hand.
Positions ==
    /\ \A t \in Threads : pc[t] \in {"wakeScan", "setEvent"} => scan[t] \in Workers
    /\ \A w \in Workers : pc[w] \in {"run", "clear", "clearSelf", "clearOthers"}
                             => op[w] \in Ops

\* A worker that raised its flag and has neither slept nor found work since.
Announced(w) ==
    \/ pc[w] \in {"count", "recheckTail", "recheckHead", "recheckLocal",
                  "checkStop", "sleep"}
    \/ pc[w] \in {"global", "steal"} /\ phase[w] = "recheck"

Waking(t, w) == pc[t] = "setEvent" /\ scan[t] = w

\* The flag of such a worker may be down only when its event is set or a
\* thread that took the flag is about to set it.
AnnouncedIsFindable == \A w \in Workers :
    Announced(w) => sleeping[w] \/ event[w] \/ \E t \in Threads : Waking(t, w)

IInv == TypeOK /\ Positions /\ AnnouncedIsFindable

-----------------------------------------------------------------------------
(* Sequences.                                                              *)

LEMMA ThreadsAre == Workers \subseteq Threads /\ Main \in Threads /\ Main \notin Workers
BY ThreadCountAssumption DEF Threads, Workers, Main

LEMMA HeadAndTail ==
  ASSUME NEW S, NEW s \in Seq(S), s # <<>>
  PROVE  Head(s) \in S /\ Tail(s) \in Seq(S)
OBVIOUS

LEMMA LastAndFront ==
  ASSUME NEW S, NEW s \in Seq(S), s # <<>>
  PROVE  Last(s) \in S /\ Front(s) \in Seq(S)
<1>1. Len(s) \in Nat /\ Len(s) >= 1
  OBVIOUS
<1> QED
  BY <1>1 DEF Last, Front

LEMMA PushType ==
  ASSUME NEW S, NEW s \in Seq(S), NEW e \in S
  PROVE  <<e>> \o s \in Seq(S) /\ Append(s, e) \in Seq(S)
OBVIOUS

\* What a worker takes from the global queue is an operation.
LEMMA GlobalQueueType ==
  ASSUME globalTail \in Seq(Ops), globalHead \in Seq(Ops)
  PROVE  /\ GlobalQueue \in Seq(Ops)
         /\ GlobalQueue # <<>> =>
               Head(GlobalQueue) \in Ops /\ Tail(GlobalQueue) \in Seq(Ops)
<1>1. GlobalQueue \in Seq(Ops)
  BY ReverseType DEF GlobalQueue
<1> QED
  BY <1>1, HeadAndTail

-----------------------------------------------------------------------------
(* A thread moves to another label: what that does to the invariant.       *)

Labels == WorkerPc \cup MainPc \cup WakePc
Holding == {"run", "clear", "clearSelf", "clearOthers"}
Pointing == {"wakeScan", "setEvent"}

LEMMA LabelsAre ==
  {"local", "global", "steal", "spin", "intent", "count", "recheckTail",
   "recheckHead", "recheckLocal", "checkStop", "sleep", "clear", "clearSelf",
   "clearOthers", "run", "exit", "schedule", "shutdown", "join", "done",
   "wake", "wakeScan", "setEvent"} \subseteq Labels
BY DEF Labels, WorkerPc, MainPc, WakePc

LEMMA Stay ==
  ASSUME scan \in [Threads -> 1..(N + 1)], NEW t \in Threads, NEW l,
         Goto(t, l), scan' = scan
  PROVE  Start(t, l, scan[t]) /\ scan[t] \in 1..(N + 1)
BY DEF Start

LEMMA Move ==
  ASSUME pc \in [Threads -> Labels], scan \in [Threads -> 1..(N + 1)],
         op \in [Threads -> Ops \cup {NoOp}], Positions,
         NEW t \in Threads, NEW l \in Labels, NEW i \in 1..(N + 1),
         Start(t, l, i), l \in Pointing => i \in Workers,
         \/ op' = op /\ (l \in Holding /\ t \in Workers => op[t] \in Ops)
         \/ op' = [op EXCEPT ![t] = NoOp] /\ l \notin Holding
         \/ \E o \in Ops : op' = [op EXCEPT ![t] = o]
  PROVE  /\ pc' \in [Threads -> Labels] /\ scan' \in [Threads -> 1..(N + 1)]
         /\ op' \in [Threads -> Ops \cup {NoOp}] /\ Positions'
<1>1. pc' \in [Threads -> Labels] /\ scan' \in [Threads -> 1..(N + 1)]
  BY DEF Start, Goto
<1>2. op' \in [Threads -> Ops \cup {NoOp}]
  OBVIOUS
<1>3. ASSUME NEW u \in Threads, pc'[u] \in {"wakeScan", "setEvent"}
      PROVE  scan'[u] \in Workers
  BY <1>3 DEF Start, Goto, Positions, Pointing
<1>4. ASSUME NEW w \in Workers, pc'[w] \in Holding
      PROVE  op'[w] \in Ops
  BY <1>4, ThreadsAre DEF Start, Goto, Positions, Holding
<1> QED
  BY <1>1, <1>2, <1>3, <1>4 DEF Positions, Holding

\* A thread moves that does not set an event or announce itself.
LEMMA Quiet ==
  ASSUME TypeOK, AnnouncedIsFindable, NEW t \in Threads, NEW l, NEW i,
         Start(t, l, i), pc[t] # "setEvent",
         sleeping' = sleeping, event' = event,
         \A w \in Workers : w # t => phase'[w] = phase[w],
         t \in Workers => (Announced(t)' => Announced(t))
  PROVE  AnnouncedIsFindable'
<1> SUFFICES ASSUME NEW w \in Workers, Announced(w)'
             PROVE  (sleeping[w] \/ event[w] \/ \E u \in Threads : Waking(u, w))'
  BY DEF AnnouncedIsFindable
<1>1. Announced(w)
  <2>1. CASE w = t
    BY <2>1
  <2>2. CASE w # t
    BY <2>2, ThreadsAre DEF Announced, Start, Goto, TypeOK
  <2> QED
    BY <2>1, <2>2
<1>2. \A u \in Threads : Waking(u, w) => Waking(u, w)'
  BY DEF Waking, Start, Goto, TypeOK
<1> QED
  BY <1>1, <1>2 DEF AnnouncedIsFindable

\* A thread takes the flag of v: it is about to set the event of v.
LEMMA Takes ==
  ASSUME TypeOK, AnnouncedIsFindable, NEW t \in Threads, NEW v \in Workers,
         TryWakeUp(t, v), pc[t] # "setEvent", event' = event, phase' = phase
  PROVE  AnnouncedIsFindable'
<1> SUFFICES ASSUME NEW w \in Workers, Announced(w)'
             PROVE  (sleeping[w] \/ event[w] \/ \E u \in Threads : Waking(u, w))'
  BY DEF AnnouncedIsFindable
<1>1. CASE w = v
  <2>1. Waking(t, w)'
    BY <1>1 DEF Waking, TryWakeUp, Start, Goto, TypeOK
  <2> QED
    BY <2>1
<1>2. CASE w # v
  <2>1. Announced(w)
    BY ThreadsAre DEF Announced, TryWakeUp, Start, Goto, TypeOK
  <2>2. \A u \in Threads : Waking(u, w) => Waking(u, w)'
    BY DEF Waking, TryWakeUp, Start, Goto, TypeOK
  <2> QED
    BY <1>2, <2>1, <2>2 DEF AnnouncedIsFindable, TryWakeUp, TypeOK
<1> QED
  BY <1>1, <1>2

-----------------------------------------------------------------------------
(* The actions that branch or move a flag.                                 *)

LEMMA LocalPopStep ==
  ASSUME IInv, NEW w \in Workers, LocalPop(w)
  PROVE  IInv'
<1>1. TypeOK /\ Positions /\ AnnouncedIsFindable /\ w \in Threads
      /\ N \in Nat \ {0} /\ scan[w] \in 1..(N + 1)
  BY ThreadsAre, ThreadCountAssumption DEF IInv, TypeOK
<1>2. CASE local[w] # <<>>
  <2>1. Last(local[w]) \in Ops /\ Front(local[w]) \in Seq(Ops)
    BY <1>1, <1>2, LastAndFront DEF TypeOK
  <2>2. Goto(w, "run") /\ scan' = scan
    BY <1>1, <1>2 DEF LocalPop
  <2>3. Start(w, "run", scan[w]) /\ scan[w] \in 1..(N + 1)
    BY <1>1, <2>2, Stay DEF TypeOK
  <2>4. "run" \in Labels /\ "run" # "sleep"
    BY LabelsAre DEF Labels
  <2>5. op' = [op EXCEPT ![w] = Last(local[w])]
    BY <1>1, <1>2 DEF LocalPop, queues, wakeVars
  <2>6. /\ pc' \in [Threads -> Labels] /\ scan' \in [Threads -> 1..(N + 1)]
        /\ op' \in [Threads -> Ops \cup {NoOp}] /\ Positions'
    BY <1>1, <2>2, <2>3, <2>4, <2>5, <2>1, Move
    DEF TypeOK, Labels, Positions, Holding, Pointing, LocalPop
  <2>7. TypeOK'
    BY <1>1, <1>2, <2>6, <2>1 DEF LocalPop, TypeOK, Labels, Phases, queues, wakeVars
  <2>8. AnnouncedIsFindable'
    BY <1>1, <1>2, <2>3, Quiet DEF LocalPop, wakeVars, Announced, Start, Goto, TypeOK
  <2> QED
    BY <2>6, <2>7, <2>8 DEF IInv
<1>3. CASE local[w] = <<>>
  <2>2. Goto(w, "global") /\ scan' = scan
    BY <1>1, <1>3 DEF LocalPop
  <2>3. Start(w, "global", scan[w]) /\ scan[w] \in 1..(N + 1)
    BY <1>1, <2>2, Stay DEF TypeOK
  <2>4. "global" \in Labels /\ "global" # "sleep"
    BY LabelsAre DEF Labels
  <2>5. op' = op
    BY <1>1, <1>3 DEF LocalPop, queues, wakeVars
  <2>6. /\ pc' \in [Threads -> Labels] /\ scan' \in [Threads -> 1..(N + 1)]
        /\ op' \in [Threads -> Ops \cup {NoOp}] /\ Positions'
    BY <1>1, <2>2, <2>3, <2>4, <2>5, Move
    DEF TypeOK, Labels, Positions, Holding, Pointing, LocalPop
  <2>7. TypeOK'
    BY <1>1, <1>3, <2>6 DEF LocalPop, TypeOK, Labels, Phases, queues, wakeVars
  <2>8. AnnouncedIsFindable'
    BY <1>1, <1>3, <2>3, Quiet DEF LocalPop, wakeVars, Announced, Start, Goto, TypeOK
  <2> QED
    BY <2>6, <2>7, <2>8 DEF IInv
<1> QED
  BY <1>1, <1>2, <1>3

LEMMA GlobalDequeueStep ==
  ASSUME IInv, NEW w \in Workers, GlobalDequeue(w)
  PROVE  IInv'
<1>1. TypeOK /\ Positions /\ AnnouncedIsFindable /\ w \in Threads
      /\ N \in Nat \ {0} /\ scan[w] \in 1..(N + 1)
  BY ThreadsAre, ThreadCountAssumption DEF IInv, TypeOK
<1>2. CASE GlobalQueue # <<>>
  <2>1. Head(GlobalQueue) \in Ops /\ Tail(GlobalQueue) \in Seq(Ops)
    BY <1>1, <1>2, GlobalQueueType DEF TypeOK
  <2>2. Goto(w, OnFound(w)) /\ scan' = scan
    BY <1>1, <1>2 DEF GlobalDequeue
  <2>3. Start(w, OnFound(w), scan[w]) /\ scan[w] \in 1..(N + 1)
    BY <1>1, <2>2, Stay DEF TypeOK
  <2>4. OnFound(w) \in Labels /\ OnFound(w) # "sleep"
    BY LabelsAre DEF Labels, OnFound
  <2>5. op' = [op EXCEPT ![w] = Head(GlobalQueue)]
    BY <1>1, <1>2 DEF GlobalDequeue, queues, wakeVars
  <2>6. /\ pc' \in [Threads -> Labels] /\ scan' \in [Threads -> 1..(N + 1)]
        /\ op' \in [Threads -> Ops \cup {NoOp}] /\ Positions'
    BY <1>1, <2>2, <2>3, <2>4, <2>5, <2>1, Move
    DEF TypeOK, Labels, Positions, Holding, Pointing, GlobalDequeue, OnFound
  <2>7. TypeOK'
    BY <1>1, <1>2, <2>6, <2>1 DEF GlobalDequeue, TypeOK, Labels, Phases, queues, wakeVars
  <2>8. w \in Workers => (Announced(w)' => Announced(w))
    BY <1>1, <1>2, <2>3 DEF GlobalDequeue, Announced, Start, Goto, TypeOK, Phases, OnFound
  <2>9. AnnouncedIsFindable'
    BY <1>1, <1>2, <2>3, <2>8, Quiet DEF GlobalDequeue, queues, wakeVars
  <2> QED
    BY <2>6, <2>7, <2>9 DEF IInv
<1>3. CASE GlobalQueue = <<>>
  <2>2. 1 \in 1..(N + 1)
    BY <1>1, <1>3 DEF GlobalDequeue, TypeOK, Positions, Workers
  <2>3. Start(w, "steal", 1) /\ 1 \in 1..(N + 1)
    BY <1>1, <2>2, <1>3 DEF GlobalDequeue, TypeOK, Workers
  <2>4. "steal" \in Labels /\ "steal" # "sleep"
    BY LabelsAre DEF Labels
  <2>5. op' = op
    BY <1>1, <1>3 DEF GlobalDequeue, queues, wakeVars
  <2>6. /\ pc' \in [Threads -> Labels] /\ scan' \in [Threads -> 1..(N + 1)]
        /\ op' \in [Threads -> Ops \cup {NoOp}] /\ Positions'
    BY <1>1, <2>2, <2>3, <2>4, <2>5, Move
    DEF TypeOK, Labels, Positions, Holding, Pointing, GlobalDequeue
  <2>7. TypeOK'
    BY <1>1, <1>3, <2>6 DEF GlobalDequeue, TypeOK, Labels, Phases, queues, wakeVars
  <2>8. w \in Workers => (Announced(w)' => Announced(w))
    BY <1>1, <1>3, <2>3 DEF GlobalDequeue, Announced, Start, Goto, TypeOK, Phases
  <2>9. AnnouncedIsFindable'
    BY <1>1, <1>3, <2>3, <2>8, Quiet DEF GlobalDequeue, queues, wakeVars
  <2> QED
    BY <2>6, <2>7, <2>9 DEF IInv
<1> QED
  BY <1>1, <1>2, <1>3

LEMMA StealStep ==
  ASSUME IInv, NEW w \in Workers, Steal(w)
  PROVE  IInv'
<1>1. TypeOK /\ Positions /\ AnnouncedIsFindable /\ w \in Threads
      /\ N \in Nat \ {0} /\ scan[w] \in 1..(N + 1)
  BY ThreadsAre, ThreadCountAssumption DEF IInv, TypeOK
<1>2. CASE scan[w] > N
  <2>2. Goto(w, OnNothing(w)) /\ scan' = scan
    BY <1>1, <1>2 DEF Steal
  <2>3. Start(w, OnNothing(w), scan[w]) /\ scan[w] \in 1..(N + 1)
    BY <1>1, <2>2, Stay DEF TypeOK
  <2>4. OnNothing(w) \in Labels /\ OnNothing(w) # "sleep"
    BY LabelsAre DEF Labels, OnNothing
  <2>5. op' = op
    BY <1>1, <1>2 DEF Steal, queues, wakeVars
  <2>6. /\ pc' \in [Threads -> Labels] /\ scan' \in [Threads -> 1..(N + 1)]
        /\ op' \in [Threads -> Ops \cup {NoOp}] /\ Positions'
    BY <1>1, <2>2, <2>3, <2>4, <2>5, Move
    DEF TypeOK, Labels, Positions, Holding, Pointing, Steal, OnNothing
  <2>7. TypeOK'
    BY <1>1, <1>2, <2>6 DEF Steal, TypeOK, Labels, Phases, queues, wakeVars
  <2>8. w \in Workers => (Announced(w)' => Announced(w))
    BY <1>1, <1>2, <2>3 DEF Steal, Announced, Start, Goto, TypeOK, Phases, OnNothing
  <2>9. AnnouncedIsFindable'
    BY <1>1, <1>2, <2>3, <2>8, Quiet DEF Steal, queues, wakeVars
  <2> QED
    BY <2>6, <2>7, <2>9 DEF IInv
<1>3. CASE /\ scan[w] <= N /\ scan[w] # w
               /\ local[scan[w]] # <<>>
  <2>1. /\ scan[w] \in Workers
        /\ Head(local[scan[w]]) \in Ops /\ Tail(local[scan[w]]) \in Seq(Ops)
    BY <1>1, <1>3, HeadAndTail DEF TypeOK, Workers
  <2>2. Goto(w, OnFound(w)) /\ scan' = scan
    BY <1>1, <1>3 DEF Steal
  <2>3. Start(w, OnFound(w), scan[w]) /\ scan[w] \in 1..(N + 1)
    BY <1>1, <2>2, Stay DEF TypeOK
  <2>4. OnFound(w) \in Labels /\ OnFound(w) # "sleep"
    BY LabelsAre DEF Labels, OnFound
  <2>5. op' = [op EXCEPT ![w] = Head(local[scan[w]])]
    BY <1>1, <1>3 DEF Steal, queues, wakeVars
  <2>6. /\ pc' \in [Threads -> Labels] /\ scan' \in [Threads -> 1..(N + 1)]
        /\ op' \in [Threads -> Ops \cup {NoOp}] /\ Positions'
    BY <1>1, <2>2, <2>3, <2>4, <2>5, <2>1, Move
    DEF TypeOK, Labels, Positions, Holding, Pointing, Steal, OnFound
  <2>7. TypeOK'
    BY <1>1, <1>3, <2>6, <2>1 DEF Steal, TypeOK, Labels, Phases, queues, wakeVars
  <2>8. w \in Workers => (Announced(w)' => Announced(w))
    BY <1>1, <1>3, <2>3 DEF Steal, Announced, Start, Goto, TypeOK, Phases, OnFound
  <2>9. AnnouncedIsFindable'
    BY <1>1, <1>3, <2>3, <2>8, Quiet DEF Steal, queues, wakeVars
  <2> QED
    BY <2>6, <2>7, <2>9 DEF IInv
<1>4. CASE /\ scan[w] <= N
               /\ ~(scan[w] # w /\ local[scan[w]] # <<>>)
  <2>2. scan[w] + 1 \in 1..(N + 1)
    BY <1>1, <1>4 DEF Steal, TypeOK, Positions, Workers
  <2>3. Start(w, "steal", scan[w] + 1) /\ scan[w] + 1 \in 1..(N + 1)
    BY <1>1, <2>2, <1>4 DEF Steal, TypeOK, Workers
  <2>4. "steal" \in Labels /\ "steal" # "sleep"
    BY LabelsAre DEF Labels
  <2>5. op' = op
    BY <1>1, <1>4 DEF Steal, queues, wakeVars
  <2>6. /\ pc' \in [Threads -> Labels] /\ scan' \in [Threads -> 1..(N + 1)]
        /\ op' \in [Threads -> Ops \cup {NoOp}] /\ Positions'
    BY <1>1, <2>2, <2>3, <2>4, <2>5, Move
    DEF TypeOK, Labels, Positions, Holding, Pointing, Steal
  <2>7. TypeOK'
    BY <1>1, <1>4, <2>6 DEF Steal, TypeOK, Labels, Phases, queues, wakeVars
  <2>8. w \in Workers => (Announced(w)' => Announced(w))
    BY <1>1, <1>4, <2>3 DEF Steal, Announced, Start, Goto, TypeOK, Phases
  <2>9. AnnouncedIsFindable'
    BY <1>1, <1>4, <2>3, <2>8, Quiet DEF Steal, queues, wakeVars
  <2> QED
    BY <2>6, <2>7, <2>9 DEF IInv
<1> QED
  BY <1>1, <1>2, <1>3, <1>4

LEMMA RecheckHeadStep ==
  ASSUME IInv, NEW w \in Workers, RecheckHead(w)
  PROVE  IInv'
<1>1. TypeOK /\ Positions /\ AnnouncedIsFindable /\ w \in Threads
      /\ N \in Nat \ {0} /\ scan[w] \in 1..(N + 1)
  BY ThreadsAre, ThreadCountAssumption DEF IInv, TypeOK
<1>2. CASE globalHead # <<>>
  <2>2. Goto(w, "global") /\ scan' = scan
    BY <1>1, <1>2 DEF RecheckHead
  <2>3. Start(w, "global", scan[w]) /\ scan[w] \in 1..(N + 1)
    BY <1>1, <2>2, Stay DEF TypeOK
  <2>4. "global" \in Labels /\ "global" # "sleep"
    BY LabelsAre DEF Labels
  <2>5. op' = op
    BY <1>1, <1>2 DEF RecheckHead, queues, wakeVars
  <2>6. /\ pc' \in [Threads -> Labels] /\ scan' \in [Threads -> 1..(N + 1)]
        /\ op' \in [Threads -> Ops \cup {NoOp}] /\ Positions'
    BY <1>1, <2>2, <2>3, <2>4, <2>5, Move
    DEF TypeOK, Labels, Positions, Holding, Pointing, RecheckHead
  <2>7. TypeOK'
    BY <1>1, <1>2, <2>6 DEF RecheckHead, TypeOK, Labels, Phases, queues, wakeVars
  <2>8. w \in Workers => (Announced(w)' => Announced(w))
    BY <1>1, <1>2, <2>3 DEF RecheckHead, Announced, Start, Goto, TypeOK, Phases
  <2>9. AnnouncedIsFindable'
    BY <1>1, <1>2, <2>3, <2>8, Quiet DEF RecheckHead, queues, wakeVars
  <2> QED
    BY <2>6, <2>7, <2>9 DEF IInv
<1>3. CASE globalHead = <<>>
  <2>2. 1 \in 1..(N + 1)
    BY <1>1, <1>3 DEF RecheckHead, TypeOK, Positions, Workers
  <2>3. Start(w, "recheckLocal", 1) /\ 1 \in 1..(N + 1)
    BY <1>1, <2>2, <1>3 DEF RecheckHead, TypeOK, Workers
  <2>4. "recheckLocal" \in Labels /\ "recheckLocal" # "sleep"
    BY LabelsAre DEF Labels
  <2>5. op' = op
    BY <1>1, <1>3 DEF RecheckHead, queues, wakeVars
  <2>6. /\ pc' \in [Threads -> Labels] /\ scan' \in [Threads -> 1..(N + 1)]
        /\ op' \in [Threads -> Ops \cup {NoOp}] /\ Positions'
    BY <1>1, <2>2, <2>3, <2>4, <2>5, Move
    DEF TypeOK, Labels, Positions, Holding, Pointing, RecheckHead
  <2>7. TypeOK'
    BY <1>1, <1>3, <2>6 DEF RecheckHead, TypeOK, Labels, Phases, queues, wakeVars
  <2>8. w \in Workers => (Announced(w)' => Announced(w))
    BY <1>1, <1>3, <2>3 DEF RecheckHead, Announced, Start, Goto, TypeOK, Phases
  <2>9. AnnouncedIsFindable'
    BY <1>1, <1>3, <2>3, <2>8, Quiet DEF RecheckHead, queues, wakeVars
  <2> QED
    BY <2>6, <2>7, <2>9 DEF IInv
<1> QED
  BY <1>1, <1>2, <1>3

LEMMA RecheckLocalStep ==
  ASSUME IInv, NEW w \in Workers, RecheckLocal(w)
  PROVE  IInv'
<1>1. TypeOK /\ Positions /\ AnnouncedIsFindable /\ w \in Threads
      /\ N \in Nat \ {0} /\ scan[w] \in 1..(N + 1)
  BY ThreadsAre, ThreadCountAssumption DEF IInv, TypeOK
<1>2. CASE scan[w] > N
  <2>2. Goto(w, "checkStop") /\ scan' = scan
    BY <1>1, <1>2 DEF RecheckLocal
  <2>3. Start(w, "checkStop", scan[w]) /\ scan[w] \in 1..(N + 1)
    BY <1>1, <2>2, Stay DEF TypeOK
  <2>4. "checkStop" \in Labels /\ "checkStop" # "sleep"
    BY LabelsAre DEF Labels
  <2>5. op' = op
    BY <1>1, <1>2 DEF RecheckLocal, queues, wakeVars
  <2>6. /\ pc' \in [Threads -> Labels] /\ scan' \in [Threads -> 1..(N + 1)]
        /\ op' \in [Threads -> Ops \cup {NoOp}] /\ Positions'
    BY <1>1, <2>2, <2>3, <2>4, <2>5, Move
    DEF TypeOK, Labels, Positions, Holding, Pointing, RecheckLocal
  <2>7. TypeOK'
    BY <1>1, <1>2, <2>6 DEF RecheckLocal, TypeOK, Labels, Phases, queues, wakeVars
  <2>8. w \in Workers => (Announced(w)' => Announced(w))
    BY <1>1, <1>2, <2>3 DEF RecheckLocal, Announced, Start, Goto, TypeOK, Phases
  <2>9. AnnouncedIsFindable'
    BY <1>1, <1>2, <2>3, <2>8, Quiet DEF RecheckLocal, queues, wakeVars
  <2> QED
    BY <2>6, <2>7, <2>9 DEF IInv
<1>3. CASE /\ scan[w] <= N /\ scan[w] # w
               /\ local[scan[w]] # <<>>
  <2>2. Goto(w, "global") /\ scan' = scan
    BY <1>1, <1>3 DEF RecheckLocal
  <2>3. Start(w, "global", scan[w]) /\ scan[w] \in 1..(N + 1)
    BY <1>1, <2>2, Stay DEF TypeOK
  <2>4. "global" \in Labels /\ "global" # "sleep"
    BY LabelsAre DEF Labels
  <2>5. op' = op
    BY <1>1, <1>3 DEF RecheckLocal, queues, wakeVars
  <2>6. /\ pc' \in [Threads -> Labels] /\ scan' \in [Threads -> 1..(N + 1)]
        /\ op' \in [Threads -> Ops \cup {NoOp}] /\ Positions'
    BY <1>1, <2>2, <2>3, <2>4, <2>5, Move
    DEF TypeOK, Labels, Positions, Holding, Pointing, RecheckLocal
  <2>7. TypeOK'
    BY <1>1, <1>3, <2>6 DEF RecheckLocal, TypeOK, Labels, Phases, queues, wakeVars
  <2>8. w \in Workers => (Announced(w)' => Announced(w))
    BY <1>1, <1>3, <2>3 DEF RecheckLocal, Announced, Start, Goto, TypeOK, Phases
  <2>9. AnnouncedIsFindable'
    BY <1>1, <1>3, <2>3, <2>8, Quiet DEF RecheckLocal, queues, wakeVars
  <2> QED
    BY <2>6, <2>7, <2>9 DEF IInv
<1>4. CASE /\ scan[w] <= N
               /\ ~(scan[w] # w /\ local[scan[w]] # <<>>)
  <2>2. scan[w] + 1 \in 1..(N + 1)
    BY <1>1, <1>4 DEF RecheckLocal, TypeOK, Positions, Workers
  <2>3. Start(w, "recheckLocal", scan[w] + 1) /\ scan[w] + 1 \in 1..(N + 1)
    BY <1>1, <2>2, <1>4 DEF RecheckLocal, TypeOK, Workers
  <2>4. "recheckLocal" \in Labels /\ "recheckLocal" # "sleep"
    BY LabelsAre DEF Labels
  <2>5. op' = op
    BY <1>1, <1>4 DEF RecheckLocal, queues, wakeVars
  <2>6. /\ pc' \in [Threads -> Labels] /\ scan' \in [Threads -> 1..(N + 1)]
        /\ op' \in [Threads -> Ops \cup {NoOp}] /\ Positions'
    BY <1>1, <2>2, <2>3, <2>4, <2>5, Move
    DEF TypeOK, Labels, Positions, Holding, Pointing, RecheckLocal
  <2>7. TypeOK'
    BY <1>1, <1>4, <2>6 DEF RecheckLocal, TypeOK, Labels, Phases, queues, wakeVars
  <2>8. w \in Workers => (Announced(w)' => Announced(w))
    BY <1>1, <1>4, <2>3 DEF RecheckLocal, Announced, Start, Goto, TypeOK, Phases
  <2>9. AnnouncedIsFindable'
    BY <1>1, <1>4, <2>3, <2>8, Quiet DEF RecheckLocal, queues, wakeVars
  <2> QED
    BY <2>6, <2>7, <2>9 DEF IInv
<1> QED
  BY <1>1, <1>2, <1>3, <1>4

LEMMA ClearIntentStep ==
  ASSUME IInv, NEW w \in Workers, ClearIntent(w)
  PROVE  IInv'
<1>1. TypeOK /\ Positions /\ AnnouncedIsFindable /\ w \in Threads
      /\ N \in Nat \ {0} /\ scan[w] \in 1..(N + 1)
  BY ThreadsAre, ThreadCountAssumption DEF IInv, TypeOK
<1>2. CASE count = 0
  <2>2. Goto(w, "run") /\ scan' = scan
    BY <1>1, <1>2 DEF ClearIntent, ClaimWake
  <2>3. Start(w, "run", scan[w]) /\ scan[w] \in 1..(N + 1)
    BY <1>1, <2>2, Stay DEF TypeOK
  <2>4. "run" \in Labels /\ "run" # "sleep"
    BY LabelsAre DEF Labels
  <2>5. op' = op
    BY <1>1, <1>2 DEF ClearIntent, ClaimWake, queues, wakeVars
  <2>6. /\ pc' \in [Threads -> Labels] /\ scan' \in [Threads -> 1..(N + 1)]
        /\ op' \in [Threads -> Ops \cup {NoOp}] /\ Positions'
    BY <1>1, <2>2, <2>3, <2>4, <2>5, Move
    DEF TypeOK, Labels, Positions, Holding, Pointing, ClearIntent
  <2>7. TypeOK'
    BY <1>1, <1>2, <2>6 DEF ClearIntent, ClaimWake, TypeOK, Labels, Phases, queues, wakeVars
  <2>8. w \in Workers => (Announced(w)' => Announced(w))
    BY <1>1, <1>2, <2>3 DEF ClearIntent, Announced, Start, Goto, TypeOK, Phases
  <2>9. AnnouncedIsFindable'
    BY <1>1, <1>2, <2>3, <2>8, Quiet DEF ClearIntent, queues, wakeVars, ClaimWake
  <2> QED
    BY <2>6, <2>7, <2>9 DEF IInv
<1>3. CASE count # 0
  <2>2. 1 \in 1..(N + 1)
    BY <1>1, <1>3 DEF ClearIntent, ClaimWake, TypeOK, Positions, Workers
  <2>3. Start(w, "clearSelf", 1) /\ 1 \in 1..(N + 1)
    BY <1>1, <2>2, <1>3 DEF ClearIntent, ClaimWake, TypeOK, Workers
  <2>4. "clearSelf" \in Labels /\ "clearSelf" # "sleep"
    BY LabelsAre DEF Labels
  <2>5. op' = op
    BY <1>1, <1>3 DEF ClearIntent, ClaimWake, queues, wakeVars
  <2>6. /\ pc' \in [Threads -> Labels] /\ scan' \in [Threads -> 1..(N + 1)]
        /\ op' \in [Threads -> Ops \cup {NoOp}] /\ Positions'
    BY <1>1, <2>2, <2>3, <2>4, <2>5, Move
    DEF TypeOK, Labels, Positions, Holding, Pointing, ClearIntent
  <2>7. TypeOK'
    BY <1>1, <1>3, <2>6 DEF ClearIntent, ClaimWake, TypeOK, Labels, Phases, queues, wakeVars
  <2>8. w \in Workers => (Announced(w)' => Announced(w))
    BY <1>1, <1>3, <2>3 DEF ClearIntent, Announced, Start, Goto, TypeOK, Phases
  <2>9. AnnouncedIsFindable'
    BY <1>1, <1>3, <2>3, <2>8, Quiet DEF ClearIntent, queues, wakeVars, ClaimWake
  <2> QED
    BY <2>6, <2>7, <2>9 DEF IInv
<1> QED
  BY <1>1, <1>2, <1>3

LEMMA ClearSelfStep ==
  ASSUME IInv, NEW w \in Workers, ClearSelf(w)
  PROVE  IInv'
<1>1. TypeOK /\ Positions /\ AnnouncedIsFindable /\ w \in Threads
      /\ N \in Nat \ {0} /\ scan[w] \in 1..(N + 1)
  BY ThreadsAre, ThreadCountAssumption DEF IInv, TypeOK
<1>2. CASE sleeping[w]
  <2>2. w \in Workers
    BY <1>1, <1>2 DEF ClearSelf, TryWakeUp, TypeOK, Positions, Workers
  <2>3. Start(w, "setEvent", w) /\ w \in 1..(N + 1)
    BY <1>1, <2>2, <1>2 DEF ClearSelf, TryWakeUp, TypeOK, Workers
  <2>4. "setEvent" \in Labels /\ "setEvent" # "sleep"
    BY LabelsAre DEF Labels
  <2>5. op' = op
    BY <1>1, <1>2 DEF ClearSelf, TryWakeUp, queues, wakeVars
  <2>6. /\ pc' \in [Threads -> Labels] /\ scan' \in [Threads -> 1..(N + 1)]
        /\ op' \in [Threads -> Ops \cup {NoOp}] /\ Positions'
    BY <1>1, <2>2, <2>3, <2>4, <2>5, Move
    DEF TypeOK, Labels, Positions, Holding, Pointing, ClearSelf
  <2>7. TypeOK'
    BY <1>1, <1>2, <2>6, <2>2 DEF ClearSelf, TryWakeUp, TypeOK, Labels, Phases, queues, wakeVars
  <2>8. AnnouncedIsFindable'
    BY <1>1, <1>2, <2>2, Takes DEF ClearSelf, queues, wakeVars, Start
  <2> QED
    BY <2>6, <2>7, <2>8 DEF IInv
<1>3. CASE ~sleeping[w]
  <2>2. Goto(w, "clearOthers") /\ scan' = scan
    BY <1>1, <1>3 DEF ClearSelf, TryWakeUp
  <2>3. Start(w, "clearOthers", scan[w]) /\ scan[w] \in 1..(N + 1)
    BY <1>1, <2>2, Stay DEF TypeOK
  <2>4. "clearOthers" \in Labels /\ "clearOthers" # "sleep"
    BY LabelsAre DEF Labels
  <2>5. op' = op
    BY <1>1, <1>3 DEF ClearSelf, TryWakeUp, queues, wakeVars
  <2>6. /\ pc' \in [Threads -> Labels] /\ scan' \in [Threads -> 1..(N + 1)]
        /\ op' \in [Threads -> Ops \cup {NoOp}] /\ Positions'
    BY <1>1, <2>2, <2>3, <2>4, <2>5, Move
    DEF TypeOK, Labels, Positions, Holding, Pointing, ClearSelf
  <2>7. TypeOK'
    BY <1>1, <1>3, <2>6 DEF ClearSelf, TryWakeUp, TypeOK, Labels, Phases, queues, wakeVars
  <2>8. w \in Workers => (Announced(w)' => Announced(w))
    BY <1>1, <1>3, <2>3 DEF ClearSelf, Announced, Start, Goto, TypeOK, Phases
  <2>9. AnnouncedIsFindable'
    BY <1>1, <1>3, <2>3, <2>8, Quiet DEF ClearSelf, queues, wakeVars, TryWakeUp
  <2> QED
    BY <2>6, <2>7, <2>9 DEF IInv
<1> QED
  BY <1>1, <1>2, <1>3 DEF TypeOK

LEMMA ClearOthersStep ==
  ASSUME IInv, NEW w \in Workers, ClearOthers(w)
  PROVE  IInv'
<1>1. TypeOK /\ Positions /\ AnnouncedIsFindable /\ w \in Threads
      /\ N \in Nat \ {0} /\ scan[w] \in 1..(N + 1)
  BY ThreadsAre, ThreadCountAssumption DEF IInv, TypeOK
<1>2. CASE scan[w] > N
  <2>2. Goto(w, "run") /\ scan' = scan
    BY <1>1, <1>2 DEF ClearOthers, TryWakeUp
  <2>3. Start(w, "run", scan[w]) /\ scan[w] \in 1..(N + 1)
    BY <1>1, <2>2, Stay DEF TypeOK
  <2>4. "run" \in Labels /\ "run" # "sleep"
    BY LabelsAre DEF Labels
  <2>5. op' = op
    BY <1>1, <1>2 DEF ClearOthers, TryWakeUp, queues, wakeVars
  <2>6. /\ pc' \in [Threads -> Labels] /\ scan' \in [Threads -> 1..(N + 1)]
        /\ op' \in [Threads -> Ops \cup {NoOp}] /\ Positions'
    BY <1>1, <2>2, <2>3, <2>4, <2>5, Move
    DEF TypeOK, Labels, Positions, Holding, Pointing, ClearOthers
  <2>7. TypeOK'
    BY <1>1, <1>2, <2>6 DEF ClearOthers, TryWakeUp, TypeOK, Labels, Phases, queues, wakeVars
  <2>8. w \in Workers => (Announced(w)' => Announced(w))
    BY <1>1, <1>2, <2>3 DEF ClearOthers, Announced, Start, Goto, TypeOK, Phases
  <2>9. AnnouncedIsFindable'
    BY <1>1, <1>2, <2>3, <2>8, Quiet DEF ClearOthers, queues, wakeVars, TryWakeUp
  <2> QED
    BY <2>6, <2>7, <2>9 DEF IInv
<1>3. CASE scan[w] <= N /\ scan[w] # w /\ sleeping[scan[w]]
  <2>2. scan[w] \in Workers
    BY <1>1, <1>3 DEF ClearOthers, TryWakeUp, TypeOK, Positions, Workers
  <2>3. Start(w, "setEvent", scan[w]) /\ scan[w] \in 1..(N + 1)
    BY <1>1, <2>2, <1>3 DEF ClearOthers, TryWakeUp, TypeOK, Workers
  <2>4. "setEvent" \in Labels /\ "setEvent" # "sleep"
    BY LabelsAre DEF Labels
  <2>5. op' = op
    BY <1>1, <1>3 DEF ClearOthers, TryWakeUp, queues, wakeVars
  <2>6. /\ pc' \in [Threads -> Labels] /\ scan' \in [Threads -> 1..(N + 1)]
        /\ op' \in [Threads -> Ops \cup {NoOp}] /\ Positions'
    BY <1>1, <2>2, <2>3, <2>4, <2>5, Move
    DEF TypeOK, Labels, Positions, Holding, Pointing, ClearOthers
  <2>7. TypeOK'
    BY <1>1, <1>3, <2>6, <2>2
    DEF ClearOthers, TryWakeUp, TypeOK, Labels, Phases, queues, wakeVars
  <2>8. AnnouncedIsFindable'
    BY <1>1, <1>3, <2>2, Takes DEF ClearOthers, queues, wakeVars, Start
  <2> QED
    BY <2>6, <2>7, <2>8 DEF IInv
<1>4. CASE /\ scan[w] <= N
               /\ ~(scan[w] # w /\ sleeping[scan[w]])
  <2>2. scan[w] + 1 \in 1..(N + 1)
    BY <1>1, <1>4 DEF ClearOthers, TryWakeUp, TypeOK, Positions, Workers
  <2>3. Start(w, "clearOthers", scan[w] + 1) /\ scan[w] + 1 \in 1..(N + 1)
    BY <1>1, <2>2, <1>4 DEF ClearOthers, TryWakeUp, TypeOK, Workers
  <2>4. "clearOthers" \in Labels /\ "clearOthers" # "sleep"
    BY LabelsAre DEF Labels
  <2>5. op' = op
    BY <1>1, <1>4 DEF ClearOthers, TryWakeUp, queues, wakeVars
  <2>6. /\ pc' \in [Threads -> Labels] /\ scan' \in [Threads -> 1..(N + 1)]
        /\ op' \in [Threads -> Ops \cup {NoOp}] /\ Positions'
    BY <1>1, <2>2, <2>3, <2>4, <2>5, Move
    DEF TypeOK, Labels, Positions, Holding, Pointing, ClearOthers
  <2>7. TypeOK'
    BY <1>1, <1>4, <2>6 DEF ClearOthers, TryWakeUp, TypeOK, Labels, Phases, queues, wakeVars
  <2>8. w \in Workers => (Announced(w)' => Announced(w))
    BY <1>1, <1>4, <2>3 DEF ClearOthers, Announced, Start, Goto, TypeOK, Phases
  <2>9. AnnouncedIsFindable'
    BY <1>1, <1>4, <2>3, <2>8, Quiet DEF ClearOthers, queues, wakeVars, TryWakeUp
  <2> QED
    BY <2>6, <2>7, <2>9 DEF IInv
<1> QED
  BY <1>1, <1>2, <1>3, <1>4 DEF TypeOK

LEMMA WakeOneStep ==
  ASSUME IInv, NEW t \in Threads, WakeOne(t)
  PROVE  IInv'
<1>1. TypeOK /\ Positions /\ AnnouncedIsFindable /\ t \in Threads
      /\ N \in Nat \ {0} /\ scan[t] \in 1..(N + 1)
  BY ThreadsAre, ThreadCountAssumption DEF IInv, TypeOK
<1>2. CASE count = 0
  <2>2. Goto(t, AfterWake(t)) /\ scan' = scan
    BY <1>1, <1>2 DEF WakeOne, ClaimWake
  <2>3. Start(t, AfterWake(t), scan[t]) /\ scan[t] \in 1..(N + 1)
    BY <1>1, <2>2, Stay DEF TypeOK
  <2>4. AfterWake(t) \in Labels /\ AfterWake(t) # "sleep"
    BY LabelsAre DEF Labels, AfterWake
  <2>5. op' = op
    BY <1>1, <1>2 DEF WakeOne, ClaimWake, queues, wakeVars
  <2>6. /\ pc' \in [Threads -> Labels] /\ scan' \in [Threads -> 1..(N + 1)]
        /\ op' \in [Threads -> Ops \cup {NoOp}] /\ Positions'
    BY <1>1, <2>2, <2>3, <2>4, <2>5, Move
    DEF TypeOK, Labels, Positions, Holding, Pointing, WakeOne, AfterWake
  <2>7. TypeOK'
    BY <1>1, <1>2, <2>6 DEF WakeOne, ClaimWake, TypeOK, Labels, Phases, queues, wakeVars
  <2>8. t \in Workers => (Announced(t)' => Announced(t))
    BY <1>1, <1>2, <2>3 DEF WakeOne, Announced, Start, Goto, TypeOK, Phases, AfterWake
  <2>9. AnnouncedIsFindable'
    BY <1>1, <1>2, <2>3, <2>8, Quiet DEF WakeOne, queues, wakeVars, ClaimWake
  <2> QED
    BY <2>6, <2>7, <2>9 DEF IInv
<1>3. CASE count # 0
  <2>2. 1 \in Workers
    BY <1>1, <1>3 DEF WakeOne, ClaimWake, TypeOK, Positions, Workers
  <2>3. Start(t, "wakeScan", 1) /\ 1 \in 1..(N + 1)
    BY <1>1, <2>2, <1>3 DEF WakeOne, ClaimWake, TypeOK, Workers
  <2>4. "wakeScan" \in Labels /\ "wakeScan" # "sleep"
    BY LabelsAre DEF Labels
  <2>5. op' = op
    BY <1>1, <1>3 DEF WakeOne, ClaimWake, queues, wakeVars
  <2>6. /\ pc' \in [Threads -> Labels] /\ scan' \in [Threads -> 1..(N + 1)]
        /\ op' \in [Threads -> Ops \cup {NoOp}] /\ Positions'
    BY <1>1, <2>2, <2>3, <2>4, <2>5, Move
    DEF TypeOK, Labels, Positions, Holding, Pointing, WakeOne
  <2>7. TypeOK'
    BY <1>1, <1>3, <2>6 DEF WakeOne, ClaimWake, TypeOK, Labels, Phases, queues, wakeVars
  <2>8. t \in Workers => (Announced(t)' => Announced(t))
    BY <1>1, <1>3, <2>3 DEF WakeOne, Announced, Start, Goto, TypeOK, Phases
  <2>9. AnnouncedIsFindable'
    BY <1>1, <1>3, <2>3, <2>8, Quiet DEF WakeOne, queues, wakeVars, ClaimWake
  <2> QED
    BY <2>6, <2>7, <2>9 DEF IInv
<1> QED
  BY <1>1, <1>2, <1>3

LEMMA WakeScanStep ==
  ASSUME IInv, NEW t \in Threads, WakeScan(t)
  PROVE  IInv'
<1>1. TypeOK /\ Positions /\ AnnouncedIsFindable /\ t \in Threads
      /\ N \in Nat \ {0} /\ scan[t] \in 1..(N + 1)
  BY ThreadsAre, ThreadCountAssumption DEF IInv, TypeOK
<1>2. CASE sleeping[scan[t]]
  <2>2. scan[t] \in Workers
    BY <1>1, <1>2 DEF WakeScan, TryWakeUp, TypeOK, Positions, Workers
  <2>3. Start(t, "setEvent", scan[t]) /\ scan[t] \in 1..(N + 1)
    BY <1>1, <2>2, <1>2 DEF WakeScan, TryWakeUp, TypeOK, Workers
  <2>4. "setEvent" \in Labels /\ "setEvent" # "sleep"
    BY LabelsAre DEF Labels
  <2>5. op' = op
    BY <1>1, <1>2 DEF WakeScan, TryWakeUp, queues, wakeVars
  <2>6. /\ pc' \in [Threads -> Labels] /\ scan' \in [Threads -> 1..(N + 1)]
        /\ op' \in [Threads -> Ops \cup {NoOp}] /\ Positions'
    BY <1>1, <2>2, <2>3, <2>4, <2>5, Move
    DEF TypeOK, Labels, Positions, Holding, Pointing, WakeScan
  <2>7. TypeOK'
    BY <1>1, <1>2, <2>6, <2>2 DEF WakeScan, TryWakeUp, TypeOK, Labels, Phases, queues, wakeVars
  <2>8. AnnouncedIsFindable'
    BY <1>1, <1>2, <2>2, Takes DEF WakeScan, queues, wakeVars, Start
  <2> QED
    BY <2>6, <2>7, <2>8 DEF IInv
<1>3. CASE ~sleeping[scan[t]]
  <2>2. (scan[t] % N) + 1 \in Workers
    BY <1>1, <1>3 DEF WakeScan, TryWakeUp, TypeOK, Positions, Workers
  <2>3. Start(t, "wakeScan", (scan[t] % N) + 1) /\ (scan[t] % N) + 1 \in 1..(N + 1)
    BY <1>1, <2>2, <1>3 DEF WakeScan, TryWakeUp, TypeOK, Workers
  <2>4. "wakeScan" \in Labels /\ "wakeScan" # "sleep"
    BY LabelsAre DEF Labels
  <2>5. op' = op
    BY <1>1, <1>3 DEF WakeScan, TryWakeUp, queues, wakeVars
  <2>6. /\ pc' \in [Threads -> Labels] /\ scan' \in [Threads -> 1..(N + 1)]
        /\ op' \in [Threads -> Ops \cup {NoOp}] /\ Positions'
    BY <1>1, <2>2, <2>3, <2>4, <2>5, Move
    DEF TypeOK, Labels, Positions, Holding, Pointing, WakeScan
  <2>7. TypeOK'
    BY <1>1, <1>3, <2>6 DEF WakeScan, TryWakeUp, TypeOK, Labels, Phases, queues, wakeVars
  <2>8. t \in Workers => (Announced(t)' => Announced(t))
    BY <1>1, <1>3, <2>3 DEF WakeScan, Announced, Start, Goto, TypeOK, Phases
  <2>9. AnnouncedIsFindable'
    BY <1>1, <1>3, <2>3, <2>8, Quiet DEF WakeScan, queues, wakeVars, TryWakeUp
  <2> QED
    BY <2>6, <2>7, <2>9 DEF IInv
<1> QED
  BY <1>1, <1>2, <1>3 DEF TypeOK

LEMMA ShutdownWakeStep ==
  ASSUME IInv, ShutdownWake
  PROVE  IInv'
<1>1. TypeOK /\ Positions /\ AnnouncedIsFindable /\ Main \in Threads
      /\ N \in Nat \ {0} /\ scan[Main] \in 1..(N + 1)
  BY ThreadsAre, ThreadCountAssumption DEF IInv, TypeOK
<1>2. CASE scan[Main] > N
  <2>2. Goto(Main, "join") /\ scan' = scan
    BY <1>1, <1>2 DEF ShutdownWake, TryWakeUp
  <2>3. Start(Main, "join", scan[Main]) /\ scan[Main] \in 1..(N + 1)
    BY <1>1, <2>2, Stay DEF TypeOK
  <2>4. "join" \in Labels /\ "join" # "sleep"
    BY LabelsAre DEF Labels
  <2>5. op' = op
    BY <1>1, <1>2 DEF ShutdownWake, TryWakeUp, queues, wakeVars
  <2>6. /\ pc' \in [Threads -> Labels] /\ scan' \in [Threads -> 1..(N + 1)]
        /\ op' \in [Threads -> Ops \cup {NoOp}] /\ Positions'
    BY <1>1, <2>2, <2>3, <2>4, <2>5, Move
    DEF TypeOK, Labels, Positions, Holding, Pointing, ShutdownWake
  <2>7. TypeOK'
    BY <1>1, <1>2, <2>6 DEF ShutdownWake, TryWakeUp, TypeOK, Labels, Phases, queues, wakeVars
  <2>8. AnnouncedIsFindable'
    BY <1>1, <1>2, <2>3, ThreadsAre, Quiet DEF ShutdownWake, queues, wakeVars
  <2> QED
    BY <2>6, <2>7, <2>8 DEF IInv
<1>3. CASE scan[Main] <= N /\ sleeping[scan[Main]]
  <2>2. scan[Main] \in Workers
    BY <1>1, <1>3 DEF ShutdownWake, TryWakeUp, TypeOK, Positions, Workers
  <2>3. Start(Main, "setEvent", scan[Main]) /\ scan[Main] \in 1..(N + 1)
    BY <1>1, <2>2, <1>3 DEF ShutdownWake, TryWakeUp, TypeOK, Workers
  <2>4. "setEvent" \in Labels /\ "setEvent" # "sleep"
    BY LabelsAre DEF Labels
  <2>5. op' = op
    BY <1>1, <1>3 DEF ShutdownWake, TryWakeUp, queues, wakeVars
  <2>6. /\ pc' \in [Threads -> Labels] /\ scan' \in [Threads -> 1..(N + 1)]
        /\ op' \in [Threads -> Ops \cup {NoOp}] /\ Positions'
    BY <1>1, <2>2, <2>3, <2>4, <2>5, Move
    DEF TypeOK, Labels, Positions, Holding, Pointing, ShutdownWake
  <2>7. TypeOK'
    BY <1>1, <1>3, <2>6, <2>2
    DEF ShutdownWake, TryWakeUp, TypeOK, Labels, Phases, queues, wakeVars
  <2>8. AnnouncedIsFindable'
    BY <1>1, <1>3, <2>2, Takes DEF ShutdownWake, queues, wakeVars, Start
  <2> QED
    BY <2>6, <2>7, <2>8 DEF IInv
<1>4. CASE scan[Main] <= N /\ ~sleeping[scan[Main]]
  <2>2. scan[Main] + 1 \in 1..(N + 1)
    BY <1>1, <1>4 DEF ShutdownWake, TryWakeUp, TypeOK, Positions, Workers
  <2>3. Start(Main, "shutdown", scan[Main] + 1) /\ scan[Main] + 1 \in 1..(N + 1)
    BY <1>1, <2>2, <1>4 DEF ShutdownWake, TryWakeUp, TypeOK, Workers
  <2>4. "shutdown" \in Labels /\ "shutdown" # "sleep"
    BY LabelsAre DEF Labels
  <2>5. op' = op
    BY <1>1, <1>4 DEF ShutdownWake, TryWakeUp, queues, wakeVars
  <2>6. /\ pc' \in [Threads -> Labels] /\ scan' \in [Threads -> 1..(N + 1)]
        /\ op' \in [Threads -> Ops \cup {NoOp}] /\ Positions'
    BY <1>1, <2>2, <2>3, <2>4, <2>5, Move
    DEF TypeOK, Labels, Positions, Holding, Pointing, ShutdownWake
  <2>7. TypeOK'
    BY <1>1, <1>4, <2>6 DEF ShutdownWake, TryWakeUp, TypeOK, Labels, Phases, queues, wakeVars
  <2>8. AnnouncedIsFindable'
    BY <1>1, <1>4, <2>3, ThreadsAre, Quiet DEF ShutdownWake, queues, wakeVars
  <2> QED
    BY <2>6, <2>7, <2>8 DEF IInv
<1> QED
  BY <1>1, <1>2, <1>3, <1>4 DEF TypeOK

-----------------------------------------------------------------------------
(* The others, and the next-state relation.                                *)

LEMMA InitInvariant == Init => IInv
<1> SUFFICES ASSUME Init PROVE IInv
  OBVIOUS
<1>1. TypeOK
  <2>1. 1 \in 1..(N + 1) /\ MaxSchedules \in 0..MaxSchedules
    BY ThreadCountAssumption, BoundAssumption
  <2>2. pc \in [Threads -> WorkerPc \cup MainPc \cup WakePc]
    BY DEF Init, WorkerPc, MainPc
  <2>3. scan \in [Threads -> 1..(N + 1)] /\ schedules \in [Ops -> 0..MaxSchedules]
    BY <2>1 DEF Init
  <2>4. local \in [Workers -> Seq(Ops)] /\ globalTail \in Seq(Ops) /\ globalHead \in Seq(Ops)
    BY DEF Init
  <2> QED
    BY <2>2, <2>3, <2>4 DEF Init, TypeOK, Phases
<1>2. Positions /\ AnnouncedIsFindable
  BY ThreadsAre DEF Init, Positions, AnnouncedIsFindable, Announced
<1> QED
  BY <1>1, <1>2 DEF IInv

LEMMA RescheduleStep ==
  ASSUME IInv, NEW w \in Workers, Reschedule(w)
  PROVE  IInv'
<1>1. /\ TypeOK /\ Positions /\ AnnouncedIsFindable
      /\ w \in Threads /\ op[w] \in Ops
  BY ThreadsAre DEF IInv, Positions, Reschedule
<1>2. Start(w, "wake", scan[w]) /\ scan[w] \in 1..(N + 1)
  BY <1>1, Stay DEF Reschedule, threadVars, TypeOK
<1>3. op' = [op EXCEPT ![w] = NoOp]
  BY DEF Reschedule
<1>4. /\ pc' \in [Threads -> Labels] /\ scan' \in [Threads -> 1..(N + 1)]
      /\ op' \in [Threads -> Ops \cup {NoOp}] /\ Positions'
  BY <1>1, <1>2, <1>3, LabelsAre, Move DEF TypeOK, Labels, Holding, Pointing
<1>5. local' \in [Workers -> Seq(Ops)] /\ globalTail' \in Seq(Ops)
  <2>1. <<op[w]>> \o globalTail \in Seq(Ops) /\ Append(local[w], op[w]) \in Seq(Ops)
    BY <1>1, PushType DEF TypeOK
  <2> QED
    BY <2>1, <1>1 DEF Reschedule, TypeOK
<1>6. schedules' \in [Ops -> 0..MaxSchedules]
  <2>1. schedules[op[w]] - 1 \in 0..MaxSchedules
    BY <1>1, BoundAssumption DEF Reschedule, TypeOK
  <2> QED
    BY <2>1, <1>1 DEF Reschedule, TypeOK
<1>7. TypeOK'
  BY <1>1, <1>4, <1>5, <1>6 DEF Reschedule, TypeOK, Labels, wakeVars
<1>8. AnnouncedIsFindable'
  <2>1. Announced(w)' => Announced(w)
    BY <1>1, <1>2 DEF Announced, Start, Goto, TypeOK
  <2> QED
    BY <1>1, <1>2, <2>1, Quiet DEF Reschedule, wakeVars
<1> QED
  BY <1>4, <1>7, <1>8 DEF IInv

LEMMA RemoteScheduleStep ==
  ASSUME IInv, NEW o \in Ops, RemoteSchedule(o)
  PROVE  IInv'
<1>1. TypeOK /\ Positions /\ AnnouncedIsFindable /\ Main \in Threads
  BY ThreadsAre DEF IInv
<1>2. Start(Main, "wake", scan[Main]) /\ scan[Main] \in 1..(N + 1)
  BY <1>1, Stay DEF RemoteSchedule, TypeOK
<1>3. op' = op
  BY DEF RemoteSchedule
<1>4. /\ pc' \in [Threads -> Labels] /\ scan' \in [Threads -> 1..(N + 1)]
      /\ op' \in [Threads -> Ops \cup {NoOp}] /\ Positions'
  BY <1>1, <1>2, <1>3, LabelsAre, Move DEF TypeOK, Labels, Holding, Pointing
<1>5. globalTail' \in Seq(Ops)
  BY <1>1, PushType DEF RemoteSchedule, TypeOK
<1>6. TypeOK'
  BY <1>1, <1>4, <1>5 DEF RemoteSchedule, TypeOK, Labels, wakeVars
<1>7. AnnouncedIsFindable'
  BY <1>1, <1>2, ThreadsAre, Quiet DEF RemoteSchedule, wakeVars
<1> QED
  BY <1>4, <1>6, <1>7 DEF IInv

LEMMA SetEventStep ==
  ASSUME IInv, NEW t \in Threads, SetEvent(t)
  PROVE  IInv'
<1>1. /\ TypeOK /\ Positions /\ AnnouncedIsFindable
      /\ scan[t] \in Workers /\ scan[t] + 1 \in 1..(N + 1)
  BY ThreadCountAssumption DEF IInv, Positions, SetEvent, Workers
<1>2. Start(t, AfterWake(t), scan[t] + 1) /\ op' = op
  BY DEF SetEvent
<1>3. /\ AfterWake(t) \in Labels \ Pointing
      /\ AfterWake(t) \in Holding => op[t] \in Ops
  BY <1>1, LabelsAre DEF AfterWake, TypeOK, Holding, Pointing
<1>4. /\ pc' \in [Threads -> Labels] /\ scan' \in [Threads -> 1..(N + 1)]
      /\ op' \in [Threads -> Ops \cup {NoOp}] /\ Positions'
  BY <1>1, <1>2, <1>3, Move DEF TypeOK, Labels
<1>5. TypeOK'
  BY <1>1, <1>4 DEF SetEvent, TypeOK, Labels, queues
<1>6. AnnouncedIsFindable'
  BY <1>1, ThreadsAre
  DEF SetEvent, AfterWake, Start, Goto, TypeOK, AnnouncedIsFindable, Announced, Waking
<1> QED
  BY <1>4, <1>5, <1>6 DEF IInv

LEMMA Step == IInv /\ [Next]_vars => IInv'
<1> SUFFICES ASSUME IInv, [Next]_vars PROVE IInv'
  OBVIOUS
<1>0. TypeOK /\ Positions /\ AnnouncedIsFindable /\ N \in Nat \ {0}
  BY ThreadCountAssumption DEF IInv
<1>1. ASSUME NEW w \in Workers, Spin(w) PROVE IInv'
  <2>1. TypeOK'
    BY <1>0, <1>1, OpAssumption, ThreadsAre
    DEF Spin, Goto, TypeOK, queues, wakeVars, threadVars, Workers, Main, WorkerPc, MainPc,
        WakePc, Phases
  <2>2. Positions'
    BY <1>0, <1>1, OpAssumption, ThreadsAre
    DEF Spin, Goto, TypeOK, Positions, queues, wakeVars, threadVars, Workers, Main, WorkerPc,
        MainPc, WakePc, Phases
  <2>3. AnnouncedIsFindable'
    BY <1>0, <1>1, ThreadsAre
    DEF Spin, Goto, TypeOK, Positions, AnnouncedIsFindable, Announced, Waking, wakeVars,
        threadVars
  <2> QED
    BY <2>1, <2>2, <2>3 DEF IInv
<1>2. ASSUME NEW w \in Workers, NotifyIntent(w) PROVE IInv'
  <2>1. TypeOK'
    BY <1>0, <1>2, OpAssumption, ThreadsAre
    DEF NotifyIntent, Goto, TypeOK, queues, wakeVars, threadVars, Workers, Main, WorkerPc,
        MainPc, WakePc, Phases
  <2>2. Positions'
    BY <1>0, <1>2, OpAssumption, ThreadsAre
    DEF NotifyIntent, Goto, TypeOK, Positions, queues, wakeVars, threadVars, Workers, Main,
        WorkerPc, MainPc, WakePc, Phases
  <2>3. AnnouncedIsFindable'
    BY <1>0, <1>2, ThreadsAre
    DEF NotifyIntent, Goto, TypeOK, Positions, AnnouncedIsFindable, Announced, Waking, wakeVars,
        threadVars
  <2> QED
    BY <2>1, <2>2, <2>3 DEF IInv
<1>3. ASSUME NEW w \in Workers, PublishIntent(w) PROVE IInv'
  <2>1. TypeOK'
    BY <1>0, <1>3, OpAssumption, ThreadsAre
    DEF PublishIntent, Goto, TypeOK, queues, wakeVars, threadVars, Workers, Main, WorkerPc,
        MainPc, WakePc, Phases
  <2>2. Positions'
    BY <1>0, <1>3, OpAssumption, ThreadsAre
    DEF PublishIntent, Goto, TypeOK, Positions, queues, wakeVars, threadVars, Workers, Main,
        WorkerPc, MainPc, WakePc, Phases
  <2>3. AnnouncedIsFindable'
    BY <1>0, <1>3, ThreadsAre
    DEF PublishIntent, Goto, TypeOK, Positions, AnnouncedIsFindable, Announced, Waking,
        wakeVars, threadVars
  <2> QED
    BY <2>1, <2>2, <2>3 DEF IInv
<1>4. ASSUME NEW w \in Workers, RecheckTail(w) PROVE IInv'
  <2>1. TypeOK'
    BY <1>0, <1>4, OpAssumption, ThreadsAre
    DEF RecheckTail, Goto, TypeOK, queues, wakeVars, threadVars, Workers, Main, WorkerPc,
        MainPc, WakePc, Phases
  <2>2. Positions'
    BY <1>0, <1>4, OpAssumption, ThreadsAre
    DEF RecheckTail, Goto, TypeOK, Positions, queues, wakeVars, threadVars, Workers, Main,
        WorkerPc, MainPc, WakePc, Phases
  <2>3. AnnouncedIsFindable'
    BY <1>0, <1>4, ThreadsAre
    DEF RecheckTail, Goto, TypeOK, Positions, AnnouncedIsFindable, Announced, Waking, wakeVars,
        threadVars
  <2> QED
    BY <2>1, <2>2, <2>3 DEF IInv
<1>5. ASSUME NEW w \in Workers, CheckStop(w) PROVE IInv'
  <2>1. TypeOK'
    BY <1>0, <1>5, OpAssumption, ThreadsAre
    DEF CheckStop, Goto, TypeOK, queues, wakeVars, threadVars, Workers, Main, WorkerPc, MainPc,
        WakePc, Phases
  <2>2. Positions'
    BY <1>0, <1>5, OpAssumption, ThreadsAre
    DEF CheckStop, Goto, TypeOK, Positions, queues, wakeVars, threadVars, Workers, Main,
        WorkerPc, MainPc, WakePc, Phases
  <2>3. AnnouncedIsFindable'
    BY <1>0, <1>5, ThreadsAre
    DEF CheckStop, Goto, TypeOK, Positions, AnnouncedIsFindable, Announced, Waking, wakeVars,
        threadVars
  <2> QED
    BY <2>1, <2>2, <2>3 DEF IInv
<1>6. ASSUME NEW w \in Workers, Sleep(w) PROVE IInv'
  <2>1. TypeOK'
    BY <1>0, <1>6, OpAssumption, ThreadsAre
    DEF Sleep, Goto, TypeOK, queues, wakeVars, threadVars, Workers, Main, WorkerPc, MainPc,
        WakePc, Phases
  <2>2. Positions'
    BY <1>0, <1>6, OpAssumption, ThreadsAre
    DEF Sleep, Goto, TypeOK, Positions, queues, wakeVars, threadVars, Workers, Main, WorkerPc,
        MainPc, WakePc, Phases
  <2>3. AnnouncedIsFindable'
    BY <1>0, <1>6, ThreadsAre
    DEF Sleep, Goto, TypeOK, Positions, AnnouncedIsFindable, Announced, Waking, wakeVars,
        threadVars
  <2> QED
    BY <2>1, <2>2, <2>3 DEF IInv
<1>7. ASSUME NEW w \in Workers, Finish(w) PROVE IInv'
  <2>1. TypeOK'
    BY <1>0, <1>7, OpAssumption, ThreadsAre
    DEF Finish, Goto, TypeOK, Positions, queues, wakeVars, threadVars, Workers, Main, WorkerPc,
        MainPc, WakePc, Phases
  <2>2. Positions'
    BY <1>0, <1>7, OpAssumption, ThreadsAre
    DEF Finish, Goto, TypeOK, Positions, queues, wakeVars, threadVars, Workers, Main, WorkerPc,
        MainPc, WakePc, Phases
  <2>3. AnnouncedIsFindable'
    BY <1>0, <1>7, ThreadsAre
    DEF Finish, Goto, TypeOK, Positions, AnnouncedIsFindable, Announced, Waking, wakeVars,
        threadVars
  <2> QED
    BY <2>1, <2>2, <2>3 DEF IInv
<1>8. ASSUME RequestStop PROVE IInv'
  <2>1. TypeOK'
    BY <1>0, <1>8, OpAssumption, ThreadsAre
    DEF RequestStop, Goto, Start, TypeOK, queues, wakeVars, threadVars, Workers, Main, WorkerPc,
        MainPc, WakePc, Phases
  <2>2. Positions'
    BY <1>0, <1>8, OpAssumption, ThreadsAre
    DEF RequestStop, Goto, Start, TypeOK, Positions, queues, wakeVars, threadVars, Workers,
        Main, WorkerPc, MainPc, WakePc, Phases
  <2>3. AnnouncedIsFindable'
    BY <1>0, <1>8, ThreadsAre
    DEF RequestStop, Goto, Start, TypeOK, Positions, AnnouncedIsFindable, Announced, Waking,
        wakeVars, threadVars
  <2> QED
    BY <2>1, <2>2, <2>3 DEF IInv
<1>9. ASSUME Join PROVE IInv'
  <2>1. TypeOK'
    BY <1>0, <1>9, OpAssumption, ThreadsAre
    DEF Join, Goto, TypeOK, queues, wakeVars, threadVars, Workers, Main, WorkerPc, MainPc,
        WakePc, Phases
  <2>2. Positions'
    BY <1>0, <1>9, OpAssumption, ThreadsAre
    DEF Join, Goto, TypeOK, Positions, queues, wakeVars, threadVars, Workers, Main, WorkerPc,
        MainPc, WakePc, Phases
  <2>3. AnnouncedIsFindable'
    BY <1>0, <1>9, ThreadsAre
    DEF Join, Goto, TypeOK, Positions, AnnouncedIsFindable, Announced, Waking, wakeVars,
        threadVars
  <2> QED
    BY <2>1, <2>2, <2>3 DEF IInv
<1>10. CASE UNCHANGED vars
  BY <1>0, <1>10 DEF vars, queues, wakeVars, threadVars, IInv, TypeOK, Positions,
     AnnouncedIsFindable, Announced, Waking
<1> QED
  BY <1>1, <1>2, <1>3, <1>4, <1>5, <1>6, <1>7, <1>8, <1>9, <1>10, ThreadsAre,
     LocalPopStep, GlobalDequeueStep, StealStep, RecheckHeadStep, RecheckLocalStep,
     ClearIntentStep, ClearSelfStep, ClearOthersStep, WakeOneStep, WakeScanStep,
     ShutdownWakeStep, RescheduleStep, RemoteScheduleStep, SetEventStep
  DEF Next, Application, RunWorker, FindWork, GoToSleep, Wake

-----------------------------------------------------------------------------

THEOREM Inductive == Spec => []IInv
BY InitInvariant, Step, PTL DEF Spec

(* The variables of the pool keep their types.                             *)
THEOREM TypeCorrect == Spec => []TypeOK
<1>1. IInv => TypeOK
  BY DEF IInv
<1> QED
  BY Inductive, <1>1, PTL

(* However the workers announce themselves, withdraw and are woken, the    *)
(* flag of a blocked worker is up or its event about to be set             *)
(* (static_thread_pool.cpp:46-70, 598-641).                                *)
THEOREM BlockedAreFindable == Spec => []BlockedIsFindable
<1>1. IInv => BlockedIsFindable
  BY DEF IInv, AnnouncedIsFindable, Announced, Waking, BlockedIsFindable, Blocked
<1> QED
  BY Inductive, <1>1, PTL

-----------------------------------------------------------------------------
(* Queued work is never left behind while all the workers sleep.  The      *)
(* count of sleepers may fall short of the flags that are up, but it is    *)
(* zero only while some worker is awake or about to be woken.              *)


\* A worker that has looked at the stack, or at the list, of the global queue
\* since it announced itself, and one that has counted itself.
SawHead(w) ==
    \/ pc[w] \in {"recheckLocal", "checkStop", "sleep"}
    \/ pc[w] = "steal" /\ phase[w] = "recheck"
SawTail(w) == SawHead(w) \/ pc[w] = "recheckHead"
Counted(w) ==
    SawTail(w) \/ pc[w] = "recheckTail" \/ (pc[w] = "global" /\ phase[w] = "recheck")

\* While the queue is not empty some worker has still to look at it, or has
\* been told to, unless the application is about to wake one.
Alert == pc[Main] \in WakePc
TailIsSeen == globalTail # <<>> => Alert \/ \E w \in Workers : ~SawTail(w) \/ event[w]
HeadIsSeen == globalHead # <<>> => Alert \/ \E w \in Workers : ~SawHead(w) \/ event[w]

\* Only the owner puts operations into a deque, and it does not look for other
\* work before the deque is empty.
OwnerIsBusy == \A w \in Workers : local[w] # <<>> => pc[w] \in {"local", "run"} \cup WakePc

\* Whoever takes the last count down to zero is awake afterwards, or wakes a
\* worker; either one counts itself again before it sleeps.
CountIsEnough ==
    count = 0 => pc[Main] = "wakeScan" \/ \E w \in Workers : ~Counted(w) \/ ~sleeping[w]

WorkInv == IInv /\ TailIsSeen /\ HeadIsSeen /\ OwnerIsBusy /\ CountIsEnough

-----------------------------------------------------------------------------
(* What a step of a worker does to the others, and how it may come to have *)
(* looked at the global queue and to be counted.                           *)

Others(w) ==
    /\ \A t \in Threads : t # w => pc'[t] = pc[t]
    /\ \A u \in Workers : u # w =>
         /\ phase'[u] = phase[u]
         /\ event[u] => event'[u]
         /\ sleeping'[u] => sleeping[u]
         /\ local'[u] # <<>> => local[u] # <<>>

Looks(w) ==
    /\ SawTail(w)' => \/ globalTail' = <<>>
                      \/ SawTail(w) /\ event' = event /\ globalTail' = globalTail
    /\ SawHead(w)' => \/ globalHead' = <<>>
                      \/ SawHead(w) /\ event' = event /\ globalHead' = globalHead

Counts(w) ==
    /\ Counted(w)' => \/ count' > 0
                      \/ Counted(w) /\ count' = count /\ sleeping' = sleeping
    /\ local'[w] # <<>> => pc'[w] \in {"local", "run"} \cup WakePc

MovesAlone(w) == Others(w) /\ Looks(w) /\ Counts(w)

LEMMA TypesAre ==
  ASSUME IInv
  PROVE  /\ local \in [Workers -> Seq(Ops)] /\ globalTail \in Seq(Ops) /\ globalHead \in Seq(Ops)
         /\ sleeping \in [Workers -> BOOLEAN] /\ count \in Nat /\ event \in [Workers -> BOOLEAN]
         /\ pc \in [Threads -> WorkerPc \cup MainPc \cup WakePc] /\ phase \in [Workers -> Phases]
         /\ N \in Nat \ {0}
BY ThreadCountAssumption DEF IInv, TypeOK

LEMMA EmptyQueue ==
  ASSUME IInv, GlobalQueue = <<>>
  PROVE  globalTail = <<>> /\ globalHead = <<>>
<1>1. globalTail \in Seq(Ops) /\ Len(Reverse(globalTail)) = Len(globalTail)
  BY TypesAre, ReverseType
<1>2. globalHead = <<>> /\ Reverse(globalTail) = <<>>
  BY DEF GlobalQueue
<1>3. Len(globalTail) = 0
  BY <1>1, <1>2
<1> QED
  BY <1>1, <1>2, <1>3

\* A worker that is not counted after its step.
LEMMA Awake ==
  ASSUME NEW w \in Workers, Others(w), ~Counted(w)',
         local'[w] # <<>> => pc'[w] \in {"local", "run"} \cup WakePc
  PROVE  MovesAlone(w)
BY DEF MovesAlone, Looks, Counts, Counted, SawTail

LEMMA WorkerMoves ==
  ASSUME IInv, OwnerIsBusy, NEW w \in Workers, RunWorker(w)
  PROVE  MovesAlone(w)
<1>0. /\ local \in [Workers -> Seq(Ops)]
      /\ sleeping \in [Workers -> BOOLEAN] /\ event \in [Workers -> BOOLEAN]
      /\ pc \in [Threads -> WorkerPc \cup MainPc \cup WakePc] /\ phase \in [Workers -> Phases]
      /\ Workers \subseteq Threads /\ w \in Threads
  BY TypesAre, ThreadsAre
<1>00. local[w] # <<>> => pc[w] \in {"local", "run"} \cup WakePc
  BY DEF OwnerIsBusy
<1>1. ASSUME LocalPop(w) PROVE MovesAlone(w)
  <2>1. /\ phase' = [phase EXCEPT ![w] = "normal"]
        /\ \/ /\ local[w] # <<>> /\ local' = [local EXCEPT ![w] = Front(@)]
              /\ pc' = [pc EXCEPT ![w] = "run"]
           \/ local[w] = <<>> /\ local' = local /\ pc' = [pc EXCEPT ![w] = "global"]
        /\ UNCHANGED <<sleeping, event>>
    BY <1>0, <1>1 DEF LocalPop, Goto, Start, queues, wakeVars
  <2>2. Others(w)
    BY <1>0, <2>1 DEF Others
  <2>3. /\ ~Counted(w)'
        /\ local'[w] # <<>> => pc'[w] \in {"local", "run"} \cup WakePc
    BY <1>0, <1>00, <2>1 DEF Counted, SawTail, SawHead, WakePc
  <2> QED
    BY <2>2, <2>3, Awake
<1>2. ASSUME Spin(w) PROVE MovesAlone(w)
  <2>1. /\ pc[w] = "spin" /\ phase' = [phase EXCEPT ![w] = "spin"]
        /\ \E l \in {"exit", "global", "intent"} : pc' = [pc EXCEPT ![w] = l]
        /\ UNCHANGED <<local, sleeping, event>>
    BY <1>0, <1>2 DEF Spin, Goto, Start, queues, wakeVars
  <2>2. Others(w)
    BY <1>0, <2>1 DEF Others
  <2>3. /\ ~Counted(w)'
        /\ local'[w] # <<>> => pc'[w] \in {"local", "run"} \cup WakePc
    BY <1>0, <1>00, <2>1 DEF Counted, SawTail, SawHead, WakePc
  <2> QED
    BY <2>2, <2>3, Awake
<1>3. ASSUME NotifyIntent(w) PROVE MovesAlone(w)
  <2>1. /\ pc[w] = "intent" /\ pc' = [pc EXCEPT ![w] = "count"]
        /\ sleeping' = [sleeping EXCEPT ![w] = TRUE] /\ UNCHANGED <<local, phase, event>>
    BY <1>0, <1>3 DEF NotifyIntent, Goto, Start, queues, wakeVars
  <2>2. Others(w)
    BY <1>0, <2>1 DEF Others
  <2>3. /\ ~Counted(w)'
        /\ local'[w] # <<>> => pc'[w] \in {"local", "run"} \cup WakePc
    BY <1>0, <1>00, <2>1 DEF Counted, SawTail, SawHead, WakePc
  <2> QED
    BY <2>2, <2>3, Awake
<1>4. ASSUME Sleep(w) PROVE MovesAlone(w)
  <2>1. /\ pc[w] = "sleep" /\ pc' = [pc EXCEPT ![w] = "spin"]
        /\ event' = [event EXCEPT ![w] = FALSE] /\ UNCHANGED <<local, phase, sleeping>>
    BY <1>0, <1>4 DEF Sleep, Goto, Start, queues, wakeVars
  <2>2. Others(w)
    BY <1>0, <2>1 DEF Others
  <2>3. /\ ~Counted(w)'
        /\ local'[w] # <<>> => pc'[w] \in {"local", "run"} \cup WakePc
    BY <1>0, <1>00, <2>1 DEF Counted, SawTail, SawHead, WakePc
  <2> QED
    BY <2>2, <2>3, Awake
<1>5. ASSUME ClearIntent(w) PROVE MovesAlone(w)
  <2>1. /\ pc[w] = "clear" /\ \E l \in {"run", "clearSelf"} : pc' = [pc EXCEPT ![w] = l]
        /\ UNCHANGED <<local, phase, sleeping, event>>
    BY <1>0, <1>5 DEF ClearIntent, Goto, Start, queues, wakeVars, ClaimWake
  <2>2. Others(w)
    BY <1>0, <2>1 DEF Others
  <2>3. /\ ~Counted(w)'
        /\ local'[w] # <<>> => pc'[w] \in {"local", "run"} \cup WakePc
    BY <1>0, <1>00, <2>1 DEF Counted, SawTail, SawHead, WakePc
  <2> QED
    BY <2>2, <2>3, Awake
<1>6. ASSUME ClearSelf(w) PROVE MovesAlone(w)
  <2>1. /\ pc[w] = "clearSelf" /\ \E l \in {"setEvent", "clearOthers"} : pc' = [pc EXCEPT ![w] = l]
        /\ (sleeping' = sleeping \/ sleeping' = [sleeping EXCEPT ![w] = FALSE])
        /\ UNCHANGED <<local, phase, event>>
    BY <1>0, <1>6 DEF ClearSelf, Goto, Start, queues, wakeVars, TryWakeUp
  <2>2. Others(w)
    BY <1>0, <2>1 DEF Others
  <2>3. /\ ~Counted(w)'
        /\ local'[w] # <<>> => pc'[w] \in {"local", "run"} \cup WakePc
    BY <1>0, <1>00, <2>1 DEF Counted, SawTail, SawHead, WakePc
  <2> QED
    BY <2>2, <2>3, Awake
<1>7. ASSUME ClearOthers(w) PROVE MovesAlone(w)
  <2>1. /\ pc[w] = "clearOthers"
        /\ \E l \in {"setEvent", "clearOthers", "run"} : pc' = [pc EXCEPT ![w] = l]
        /\ (sleeping' = sleeping \/ sleeping' = [sleeping EXCEPT ![scan[w]] = FALSE])
        /\ UNCHANGED <<local, phase, event>>
    BY <1>0, <1>7 DEF ClearOthers, Goto, Start, queues, wakeVars, TryWakeUp
  <2>2. Others(w)
    BY <1>0, <2>1 DEF Others
  <2>3. /\ ~Counted(w)'
        /\ local'[w] # <<>> => pc'[w] \in {"local", "run"} \cup WakePc
    BY <1>0, <1>00, <2>1 DEF Counted, SawTail, SawHead, WakePc
  <2> QED
    BY <2>2, <2>3, Awake
<1>8. ASSUME WakeOne(w) PROVE MovesAlone(w)
  <2>1. /\ pc[w] = "wake" /\ \E l \in {"run", "local", "wakeScan"} : pc' = [pc EXCEPT ![w] = l]
        /\ UNCHANGED <<local, phase, sleeping, event>>
    BY <1>0, <1>8, ThreadsAre
    DEF WakeOne, Goto, Start, queues, wakeVars, ClaimWake, AfterWake, Workers, Main
  <2>2. Others(w)
    BY <1>0, <2>1 DEF Others
  <2>3. /\ ~Counted(w)'
        /\ local'[w] # <<>> => pc'[w] \in {"local", "run"} \cup WakePc
    BY <1>0, <1>00, <2>1 DEF Counted, SawTail, SawHead, WakePc
  <2> QED
    BY <2>2, <2>3, Awake
<1>9. ASSUME WakeScan(w) PROVE MovesAlone(w)
  <2>1. /\ pc[w] = "wakeScan" /\ \E l \in {"setEvent", "wakeScan"} : pc' = [pc EXCEPT ![w] = l]
        /\ (sleeping' = sleeping \/ sleeping' = [sleeping EXCEPT ![scan[w]] = FALSE])
        /\ UNCHANGED <<local, phase, event>>
    BY <1>0, <1>9 DEF WakeScan, Goto, Start, queues, wakeVars, TryWakeUp
  <2>2. Others(w)
    BY <1>0, <2>1 DEF Others
  <2>3. /\ ~Counted(w)'
        /\ local'[w] # <<>> => pc'[w] \in {"local", "run"} \cup WakePc
    BY <1>0, <1>00, <2>1 DEF Counted, SawTail, SawHead, WakePc
  <2> QED
    BY <2>2, <2>3, Awake
<1>10. ASSUME SetEvent(w) PROVE MovesAlone(w)
  <2>1. /\ pc[w] = "setEvent" /\ \E l \in {"run", "local"} : pc' = [pc EXCEPT ![w] = l]
        /\ event' = [event EXCEPT ![scan[w]] = TRUE]
        /\ UNCHANGED <<local, phase, sleeping>>
    BY <1>0, <1>10, ThreadsAre
    DEF SetEvent, Goto, Start, queues, wakeVars, AfterWake, Workers, Main
  <2>2. Others(w)
    BY <1>0, <2>1 DEF Others
  <2>3. /\ ~Counted(w)'
        /\ local'[w] # <<>> => pc'[w] \in {"local", "run"} \cup WakePc
    BY <1>0, <1>00, <2>1 DEF Counted, SawTail, SawHead, WakePc
  <2> QED
    BY <2>2, <2>3, Awake
<1>11. ASSUME Reschedule(w) PROVE MovesAlone(w)
  <2>1. /\ pc[w] = "run" /\ pc' = [pc EXCEPT ![w] = "wake"]
        /\ (local' = local \/ local' = [local EXCEPT ![w] = Append(@, op[w])])
        /\ UNCHANGED <<phase, sleeping, event>>
    BY <1>0, <1>11 DEF Reschedule, Goto, Start, queues, wakeVars
  <2>2. Others(w)
    BY <1>0, <2>1 DEF Others
  <2>3. /\ ~Counted(w)'
        /\ local'[w] # <<>> => pc'[w] \in {"local", "run"} \cup WakePc
    BY <1>0, <1>00, <2>1 DEF Counted, SawTail, SawHead, WakePc
  <2> QED
    BY <2>2, <2>3, Awake
<1>12. ASSUME Finish(w) PROVE MovesAlone(w)
  <2>1. /\ pc[w] = "run" /\ pc' = [pc EXCEPT ![w] = "local"]
        /\ UNCHANGED <<local, phase, sleeping, event>>
    BY <1>0, <1>12 DEF Finish, Goto, Start, queues, wakeVars
  <2>2. Others(w)
    BY <1>0, <2>1 DEF Others
  <2>3. /\ ~Counted(w)'
        /\ local'[w] # <<>> => pc'[w] \in {"local", "run"} \cup WakePc
    BY <1>0, <1>00, <2>1 DEF Counted, SawTail, SawHead, WakePc
  <2> QED
    BY <2>2, <2>3, Awake
<1>20. ASSUME GlobalDequeue(w) PROVE MovesAlone(w)
  <2>1. /\ pc[w] = "global" /\ UNCHANGED <<local, sleeping, event, count, phase>>
        /\ \/ \E l \in {"run", "clear"} : pc' = [pc EXCEPT ![w] = l]
           \/ /\ GlobalQueue = <<>> /\ pc' = [pc EXCEPT ![w] = "steal"]
              /\ UNCHANGED <<globalTail, globalHead>>
    BY <1>0, <1>20 DEF GlobalDequeue, OnFound, Goto, Start, wakeVars
  <2>2. Others(w) /\ local'[w] = <<>>
    BY <1>0, <1>00, <2>1 DEF Others, WakePc
  <2>3. CASE \E l \in {"run", "clear"} : pc' = [pc EXCEPT ![w] = l]
    <3>1. ~Counted(w)'
      BY <1>0, <2>3 DEF Counted, SawTail, SawHead
    <3> QED
      BY <2>2, <3>1, Awake
  <2>4. CASE GlobalQueue = <<>> /\ pc' = [pc EXCEPT ![w] = "steal"]
             /\ UNCHANGED <<globalTail, globalHead>>
    <3>1. globalTail' = <<>> /\ globalHead' = <<>>
      BY <2>4, EmptyQueue
    <3>2. Counted(w)' => Counted(w)
      BY <1>0, <2>1, <2>4 DEF Counted, SawTail, SawHead
    <3> QED
      BY <2>1, <2>2, <3>1, <3>2 DEF MovesAlone, Looks, Counts
  <2> QED
    BY <2>1, <2>3, <2>4
<1>21. ASSUME Steal(w) PROVE MovesAlone(w)
  <2>1. /\ pc[w] = "steal" /\ UNCHANGED <<globalTail, globalHead, sleeping, event, count, phase>>
        /\ \/ /\ \E l \in {"run", "clear"} : pc' = [pc EXCEPT ![w] = l]
              /\ scan[w] # w /\ local[scan[w]] # <<>>
              /\ local' = [local EXCEPT ![scan[w]] = Tail(@)]
           \/ pc' = [pc EXCEPT ![w] = "steal"] /\ local' = local
           \/ phase[w] = "recheck" /\ pc' = [pc EXCEPT ![w] = "checkStop"] /\ local' = local
           \/ phase[w] # "recheck" /\ pc' = [pc EXCEPT ![w] = "spin"] /\ local' = local
    BY <1>0, <1>21 DEF Steal, OnFound, OnNothing, Goto, Start, wakeVars
  <2>2. Others(w) /\ local'[w] = <<>>
    BY <1>0, <1>00, <2>1 DEF Others, WakePc
  <2>3. /\ SawTail(w)' => SawTail(w)
        /\ SawHead(w)' => SawHead(w)
        /\ Counted(w)' => Counted(w)
    BY <1>0, <2>1 DEF Counted, SawTail, SawHead
  <2> QED
    BY <2>1, <2>2, <2>3 DEF MovesAlone, Looks, Counts
<1>22. ASSUME PublishIntent(w) PROVE MovesAlone(w)
  <2>1. /\ pc[w] = "count" /\ pc' = [pc EXCEPT ![w] = "recheckTail"] /\ count' = count + 1
        /\ phase' = [phase EXCEPT ![w] = "recheck"] /\ UNCHANGED <<local, sleeping, event>>
    BY <1>22 DEF PublishIntent, Goto, queues
  <2>2. Others(w) /\ local'[w] = <<>>
    BY <1>0, <1>00, <2>1 DEF Others, WakePc
  <2>3. ~SawTail(w)' /\ ~SawHead(w)'
    BY <1>0, <2>1 DEF SawTail, SawHead
  <2>4. count' > 0
    BY <2>1, TypesAre
  <2> QED
    BY <2>2, <2>3, <2>4 DEF MovesAlone, Looks, Counts
<1>23. ASSUME RecheckTail(w) \/ RecheckHead(w) \/ RecheckLocal(w) \/ CheckStop(w)
       PROVE  MovesAlone(w)
  <2>1. /\ UNCHANGED <<local, globalTail, globalHead, sleeping, event, count, phase>>
        /\ \/ /\ pc[w] = "recheckTail" /\ globalTail = <<>> /\ pc' = [pc EXCEPT ![w] = "recheckHead"]
           \/ /\ pc[w] = "recheckHead" /\ globalHead = <<>> /\ pc' = [pc EXCEPT ![w] = "recheckLocal"]
           \/ /\ pc[w] = "recheckLocal"
              /\ pc' \in {[pc EXCEPT ![w] = "recheckLocal"], [pc EXCEPT ![w] = "checkStop"]}
           \/ /\ pc[w] = "checkStop"
              /\ pc' \in {[pc EXCEPT ![w] = "exit"], [pc EXCEPT ![w] = "sleep"]}
           \/ /\ pc[w] \in {"recheckTail", "recheckHead", "recheckLocal"}
              /\ pc' = [pc EXCEPT ![w] = "global"]
    BY <1>23
    DEF RecheckTail, RecheckHead, RecheckLocal, CheckStop, Goto, Start, queues, wakeVars
  <2>2. Others(w) /\ local'[w] = <<>>
    BY <1>0, <1>00, <2>1 DEF Others, WakePc
  <2>3. Counted(w)' => Counted(w)
    BY <1>0, <2>1 DEF Counted, SawTail, SawHead
  <2>4. /\ SawTail(w)' => SawTail(w) \/ globalTail' = <<>>
        /\ SawHead(w)' => SawHead(w) \/ globalHead' = <<>>
    BY <1>0, <2>1 DEF SawTail, SawHead
  <2> QED
    BY <2>1, <2>2, <2>3, <2>4 DEF MovesAlone, Looks, Counts
<1> QED
  BY <1>1, <1>2, <1>3, <1>4, <1>5, <1>6, <1>7, <1>8, <1>9, <1>10, <1>11, <1>12, <1>20, <1>21,
     <1>22, <1>23
  DEF RunWorker, FindWork, GoToSleep, Wake

\* What holds of the queue, the deques and the count survives such a step.
LEMMA WorkerStep ==
  ASSUME WorkInv, NEW w \in Workers, MovesAlone(w)
  PROVE  TailIsSeen' /\ HeadIsSeen' /\ OwnerIsBusy' /\ CountIsEnough'
<1>1. /\ w \in Threads /\ Main \in Threads /\ w # Main /\ Workers \subseteq Threads
      /\ pc'[Main] = pc[Main] /\ (Alert' <=> Alert)
  BY ThreadsAre DEF MovesAlone, Others, Alert
<1>2. \A u \in Workers : u # w => /\ pc'[u] = pc[u] /\ phase'[u] = phase[u]
                                  /\ event[u] => event'[u]
                                  /\ sleeping'[u] => sleeping[u]
                                  /\ local'[u] # <<>> => local[u] # <<>>
  BY <1>1 DEF MovesAlone, Others
<1>3. \A u \in Workers : u # w => /\ SawTail(u)' <=> SawTail(u)
                                  /\ SawHead(u)' <=> SawHead(u)
                                  /\ Counted(u)' <=> Counted(u)
  BY <1>2 DEF SawTail, SawHead, Counted
<1>4. TailIsSeen'
  <2> SUFFICES ASSUME globalTail' # <<>>, SawTail(w)'
               PROVE  Alert' \/ \E u \in Workers : ~SawTail(u)' \/ event'[u]
    BY DEF TailIsSeen
  <2>1. SawTail(w) /\ event' = event /\ globalTail # <<>>
    BY DEF MovesAlone, Looks
  <2>2. CASE Alert
    BY <1>1, <2>2
  <2>3. CASE ~Alert
    <3>1. PICK u \in Workers : ~SawTail(u) \/ event[u]
      BY <2>1, <2>3 DEF WorkInv, TailIsSeen
    <3> QED
      BY <1>3, <2>1, <3>1
  <2> QED
    BY <2>2, <2>3
<1>5. HeadIsSeen'
  <2> SUFFICES ASSUME globalHead' # <<>>, SawHead(w)'
               PROVE  Alert' \/ \E u \in Workers : ~SawHead(u)' \/ event'[u]
    BY DEF HeadIsSeen
  <2>1. SawHead(w) /\ event' = event /\ globalHead # <<>>
    BY DEF MovesAlone, Looks
  <2>2. CASE Alert
    BY <1>1, <2>2
  <2>3. CASE ~Alert
    <3>1. PICK u \in Workers : ~SawHead(u) \/ event[u]
      BY <2>1, <2>3 DEF WorkInv, HeadIsSeen
    <3> QED
      BY <1>3, <2>1, <3>1
  <2> QED
    BY <2>2, <2>3
<1>6. OwnerIsBusy'
  BY <1>2 DEF WorkInv, OwnerIsBusy, MovesAlone, Counts
<1>7. CountIsEnough'
  <2> SUFFICES ASSUME count' = 0, Counted(w)'
               PROVE  \/ pc'[Main] = "wakeScan"
                      \/ \E u \in Workers : ~Counted(u)' \/ ~sleeping'[u]
    BY DEF CountIsEnough
  <2>1. Counted(w) /\ count = 0 /\ sleeping' = sleeping
    BY DEF MovesAlone, Counts
  <2>2. CASE pc[Main] = "wakeScan"
    BY <1>1, <2>2
  <2>3. CASE pc[Main] # "wakeScan"
    <3>1. PICK u \in Workers : ~Counted(u) \/ ~sleeping[u]
      BY <2>1, <2>3 DEF WorkInv, CountIsEnough
    <3> QED
      BY <1>3, <2>1, <3>1
  <2> QED
    BY <2>2, <2>3
<1> QED
  BY <1>4, <1>5, <1>6, <1>7

-----------------------------------------------------------------------------
(* The application.                                                        *)

\* A count of zero: some worker has not looked at the queue, or is woken.
LEMMA ZeroIsSafe ==
  ASSUME WorkInv, pc[Main] = "wake", count = 0
  PROVE  \E w \in Workers : ~SawTail(w) \/ event[w]
<1>1. PICK w \in Workers : ~Counted(w) \/ ~sleeping[w]
  BY DEF WorkInv, CountIsEnough
<1>2. CASE ~Counted(w)
  BY <1>2 DEF Counted
<1>3. CASE Counted(w) /\ ~sleeping[w]
  <2>1. event[w] \/ \E t \in Threads : Waking(t, w)
    BY <1>3 DEF WorkInv, IInv, AnnouncedIsFindable, Announced, Counted, SawTail, SawHead
  <2>2. CASE event[w]
    BY <2>2
  <2>3. ASSUME NEW t \in Threads, Waking(t, w) PROVE \E u \in Workers : ~SawTail(u) \/ event[u]
    <3>1. t \in Workers /\ pc[t] = "setEvent"
      BY <2>3 DEF Waking, Threads
    <3> QED
      BY <3>1 DEF SawTail, SawHead
  <2> QED
    BY <2>1, <2>2, <2>3
<1> QED
  BY <1>1, <1>2, <1>3

\* What a step of the application must not do.
MainMoves ==
    /\ UNCHANGED <<local, globalHead, phase>>
    /\ \A w \in Workers : /\ pc'[w] = pc[w]
                          /\ event[w] => event'[w]
                          /\ sleeping'[w] => sleeping[w]
    /\ globalTail' = globalTail \/ Alert'
    /\ Alert => Alert' \/ \E w \in Workers : ~SawTail(w) \/ event'[w]
    /\ count' = 0 => count = 0 \/ pc'[Main] = "wakeScan"
    /\ pc[Main] = "wakeScan" => pc'[Main] = "wakeScan" \/ \E w \in Workers : ~sleeping'[w]

LEMMA ApplicationMoves ==
  ASSUME WorkInv, Application
  PROVE  MainMoves
<1>0. /\ sleeping \in [Workers -> BOOLEAN] /\ count \in Nat /\ event \in [Workers -> BOOLEAN]
      /\ pc \in [Threads -> WorkerPc \cup MainPc \cup WakePc]
      /\ Main \in Threads /\ Workers \subseteq Threads
  BY TypesAre, ThreadsAre DEF WorkInv
<1>00. \A w \in Workers : w # Main
  BY ThreadsAre
<1>000. pc[Main] \in {"wakeScan", "setEvent"} => scan[Main] \in Workers
  BY <1>0 DEF WorkInv, IInv, Positions
<1>1. ASSUME \E o \in Ops : RemoteSchedule(o) PROVE MainMoves
  <2>1. /\ pc[Main] = "schedule" /\ pc' = [pc EXCEPT ![Main] = "wake"]
        /\ UNCHANGED <<count, sleeping, event>>
    BY <1>0, <1>1 DEF RemoteSchedule, wakeVars, queues, Goto, Start
  <2>2. UNCHANGED <<local, globalHead, phase>>
    BY <1>1 DEF RemoteSchedule, queues
  <2>3. \A w \in Workers : /\ pc'[w] = pc[w]
                           /\ event[w] => event'[w]
                           /\ sleeping'[w] => sleeping[w]
    BY <1>0, <1>00, <2>1
  <2> QED
    BY <1>0, <1>000, <2>1, <2>2, <2>3 DEF MainMoves, Alert, WakePc
<1>2. ASSUME RequestStop PROVE MainMoves
  <2>1. /\ pc[Main] = "schedule" /\ pc' = [pc EXCEPT ![Main] = "shutdown"]
        /\ UNCHANGED <<globalTail, count, sleeping, event>>
    BY <1>0, <1>2 DEF RequestStop, queues, Goto, Start
  <2>2. UNCHANGED <<local, globalHead, phase>>
    BY <1>2 DEF RequestStop, queues
  <2>3. \A w \in Workers : /\ pc'[w] = pc[w]
                           /\ event[w] => event'[w]
                           /\ sleeping'[w] => sleeping[w]
    BY <1>0, <1>00, <2>1
  <2> QED
    BY <1>0, <1>000, <2>1, <2>2, <2>3 DEF MainMoves, Alert, WakePc
<1>3. ASSUME ShutdownWake PROVE MainMoves
  <2>1. /\ pc[Main] = "shutdown" /\ UNCHANGED <<globalTail, count, event>>
        /\ \E l \in {"join", "shutdown", "setEvent"} : pc' = [pc EXCEPT ![Main] = l]
        /\ \/ sleeping' = sleeping
           \/ sleeping' = [sleeping EXCEPT ![scan[Main]] = FALSE]
    BY <1>0, <1>3 DEF ShutdownWake, TryWakeUp, queues, Goto, Start
  <2>2. UNCHANGED <<local, globalHead, phase>>
    BY <1>3 DEF ShutdownWake, queues
  <2>3. \A w \in Workers : /\ pc'[w] = pc[w]
                           /\ event[w] => event'[w]
                           /\ sleeping'[w] => sleeping[w]
    BY <1>0, <1>00, <2>1
  <2> QED
    BY <1>0, <1>000, <2>1, <2>2, <2>3 DEF MainMoves, Alert, WakePc
<1>4. ASSUME Join PROVE MainMoves
  <2>1. /\ pc[Main] = "join" /\ pc' = [pc EXCEPT ![Main] = "done"]
        /\ UNCHANGED <<globalTail, count, sleeping, event>>
    BY <1>0, <1>4 DEF Join, wakeVars, queues, Goto, Start
  <2>2. UNCHANGED <<local, globalHead, phase>>
    BY <1>4 DEF Join, queues
  <2>3. \A w \in Workers : /\ pc'[w] = pc[w]
                           /\ event[w] => event'[w]
                           /\ sleeping'[w] => sleeping[w]
    BY <1>0, <1>00, <2>1
  <2> QED
    BY <1>0, <1>000, <2>1, <2>2, <2>3 DEF MainMoves, Alert, WakePc
<1>5. ASSUME WakeOne(Main) PROVE MainMoves
  <2>1. /\ pc[Main] = "wake" /\ UNCHANGED <<globalTail, sleeping, event>>
        /\ \/ /\ count = 0 /\ count' = count
              /\ \E l \in {"shutdown", "schedule"} : pc' = [pc EXCEPT ![Main] = l]
           \/ count' = count - 1 /\ pc' = [pc EXCEPT ![Main] = "wakeScan"]
    BY <1>0, <1>5 DEF WakeOne, ClaimWake, AfterWake, queues, Goto, Start
  <2>2. UNCHANGED <<local, globalHead, phase>>
    BY <1>5 DEF WakeOne, queues
  <2>3. \A w \in Workers : /\ pc'[w] = pc[w]
                           /\ event[w] => event'[w]
                           /\ sleeping'[w] => sleeping[w]
    BY <1>0, <1>00, <2>1
  <2>4. Alert => Alert' \/ \E w \in Workers : ~SawTail(w) \/ event'[w]
    BY <1>0, <2>1, ZeroIsSafe DEF Alert, WakePc
  <2>5. count' = 0 => count = 0 \/ pc'[Main] = "wakeScan"
    BY <1>0, <2>1
  <2> QED
    BY <2>1, <2>2, <2>3, <2>4, <2>5 DEF MainMoves
<1>6. ASSUME WakeScan(Main) PROVE MainMoves
  <2>1. /\ pc[Main] = "wakeScan" /\ UNCHANGED <<globalTail, count, event>>
        /\ \/ sleeping' = sleeping /\ pc' = [pc EXCEPT ![Main] = "wakeScan"]
           \/ /\ sleeping' = [sleeping EXCEPT ![scan[Main]] = FALSE]
              /\ pc' = [pc EXCEPT ![Main] = "setEvent"]
    BY <1>0, <1>6 DEF WakeScan, TryWakeUp, queues, Goto, Start
  <2>2. UNCHANGED <<local, globalHead, phase>>
    BY <1>6 DEF WakeScan, queues
  <2>3. \A w \in Workers : /\ pc'[w] = pc[w]
                           /\ event[w] => event'[w]
                           /\ sleeping'[w] => sleeping[w]
    BY <1>0, <1>00, <2>1
  <2> QED
    BY <1>0, <1>000, <2>1, <2>2, <2>3 DEF MainMoves, Alert, WakePc
<1>7. ASSUME SetEvent(Main) PROVE MainMoves
  <2>1. /\ pc[Main] = "setEvent" /\ UNCHANGED <<globalTail, count, sleeping>>
        /\ \E l \in {"shutdown", "schedule"} : pc' = [pc EXCEPT ![Main] = l]
        /\ event' = [event EXCEPT ![scan[Main]] = TRUE]
    BY <1>0, <1>7 DEF SetEvent, AfterWake, queues, Goto, Start
  <2>2. UNCHANGED <<local, globalHead, phase>>
    BY <1>7 DEF SetEvent, queues
  <2>3. \A w \in Workers : /\ pc'[w] = pc[w]
                           /\ event[w] => event'[w]
                           /\ sleeping'[w] => sleeping[w]
    BY <1>0, <1>00, <2>1
  <2> QED
    BY <1>0, <1>000, <2>1, <2>2, <2>3 DEF MainMoves, Alert, WakePc
<1> QED
  BY <1>1, <1>2, <1>3, <1>4, <1>5, <1>6, <1>7 DEF Application, Wake

LEMMA ApplicationStep ==
  ASSUME WorkInv, MainMoves
  PROVE  TailIsSeen' /\ HeadIsSeen' /\ OwnerIsBusy' /\ CountIsEnough'
<1>1. \A w \in Workers : /\ SawTail(w)' <=> SawTail(w)
                         /\ SawHead(w)' <=> SawHead(w)
                         /\ Counted(w)' <=> Counted(w)
                         /\ SawHead(w) => SawTail(w)
  BY DEF MainMoves, SawTail, SawHead, Counted
<1>2. TailIsSeen'
  BY <1>1 DEF WorkInv, TailIsSeen, MainMoves
<1>3. HeadIsSeen'
  BY <1>1 DEF WorkInv, HeadIsSeen, MainMoves
<1>4. OwnerIsBusy'
  BY DEF WorkInv, OwnerIsBusy, MainMoves
<1>5. CountIsEnough'
  BY <1>1 DEF WorkInv, CountIsEnough, MainMoves
<1> QED
  BY <1>2, <1>3, <1>4, <1>5

-----------------------------------------------------------------------------

LEMMA InitWork == Init => WorkInv
<1> SUFFICES ASSUME Init PROVE WorkInv
  OBVIOUS
<1>1. 1 \in Workers /\ pc[1] = "local"
  <2>1. 1 \in Workers /\ Workers \subseteq Threads /\ 1 # Main
    BY ThreadsAre, ThreadCountAssumption DEF Workers, Main
  <2> QED
    BY <2>1 DEF Init
<1>2. CountIsEnough
  BY <1>1 DEF CountIsEnough, Counted, SawTail, SawHead
<1>3. TailIsSeen /\ HeadIsSeen /\ OwnerIsBusy
  BY DEF Init, TailIsSeen, HeadIsSeen, OwnerIsBusy
<1> QED
  BY <1>2, <1>3, InitInvariant DEF WorkInv

LEMMA NextWork == WorkInv /\ [Next]_vars => WorkInv'
<1> SUFFICES ASSUME WorkInv, [Next]_vars PROVE WorkInv'
  OBVIOUS
<1>1. IInv'
  BY Step DEF WorkInv
<1>2. ASSUME NEW w \in Workers, RunWorker(w) PROVE WorkInv'
  <2>1. MovesAlone(w)
    BY <1>2, WorkerMoves DEF WorkInv
  <2> QED
    BY <1>1, <2>1, WorkerStep DEF WorkInv
<1>3. CASE Application
  BY <1>1, <1>3, ApplicationMoves, ApplicationStep DEF WorkInv
<1>4. CASE UNCHANGED vars
  <2>1. UNCHANGED <<local, globalTail, globalHead, sleeping, count, event, pc, phase>>
    BY <1>4 DEF vars, queues, wakeVars, threadVars
  <2> QED
    BY <1>1, <2>1 DEF WorkInv, TailIsSeen, HeadIsSeen, OwnerIsBusy, CountIsEnough, Alert,
                      SawTail, SawHead, Counted
<1> QED
  BY <1>2, <1>3, <1>4 DEF Next

(* While the global queue holds work, some worker has still to look at it   *)
(* or is about to be woken, and the count of sleepers is zero only while    *)
(* somebody is awake to count again (static_thread_pool.cpp:430-466,        *)
(* 608-650, 716-749).                                                       *)
THEOREM WorkIsSeen == Spec => []WorkInv
BY InitWork, NextWork, PTL DEF Spec

\* When all the workers are blocked they have looked at everything, and found
\* it empty, unless the application has still to wake one.
LEMMA NoneStranded == WorkInv => NoStrandedWork
<1> SUFFICES ASSUME WorkInv, Queued # {}, \A w \in Workers : Blocked(w)
             PROVE  \E t \in Threads : pc[t] \in WakePc
  BY DEF NoStrandedWork
<1>1. \A w \in Workers : /\ pc[w] = "sleep" /\ SawTail(w) /\ SawHead(w)
                         /\ ~event[w] /\ local[w] = <<>>
  BY DEF Blocked, SawTail, SawHead, WorkInv, OwnerIsBusy, WakePc
<1>2. globalTail # <<>> \/ globalHead # <<>>
  <2> SUFFICES ASSUME globalTail = <<>>, globalHead = <<>> PROVE Queued = {}
    OBVIOUS
  <2>1. ToSet(<<>>) = {}
    BY DEF ToSet
  <2> QED
    BY <1>1, <2>1 DEF Queued
<1>3. Alert
  BY <1>1, <1>2 DEF WorkInv, TailIsSeen, HeadIsSeen
<1> QED
  BY <1>3, ThreadsAre DEF Alert

(* Work is never stranded: while an operation is queued, some worker is not *)
(* blocked, or the thread that queued it is about to wake one, although the *)
(* count of sleepers may fall short (static_thread_pool.cpp:430-466,        *)
(* 597-650, 716-749).                                                       *)
THEOREM WorkIsNotStranded == Spec => []NoStrandedWork
BY WorkIsSeen, NoneStranded, PTL

-----------------------------------------------------------------------------
(* Where an operation is.                                                  *)

\* The global queue, oldest first.
Shared == globalHead \o Reverse(globalTail)

Kinds == {"local", "hand", "global", "done"}
At(k, i, o) ==
    \/ k = "local" /\ i \in Workers /\ Has(local[i], o)
    \/ k = "hand" /\ i \in Threads /\ op[i] = o
    \/ k = "global" /\ i = Main /\ Has(Shared, o)
    \/ k = "done" /\ i = Main /\ o \in finished

OneSpot == \A o \in Ops : \A k, l \in Kinds : \A i, j \in Threads :
    At(k, i, o) /\ At(l, j, o) => k = l /\ i = j
ListedOnce == Once(Shared) /\ \A w \in Workers : Once(local[w])

\* A thread has an operation in hand only where it is about to run it.
Hands == {"run", "clear", "clearSelf", "clearOthers", "setEvent"}
InHand == op[Main] = NoOp /\ \A w \in Workers : op[w] # NoOp => pc[w] \in Hands

\* An operation that was scheduled again did not get lost.
Kept == \A o \in Ops :
    schedules[o] < MaxSchedules => \E k \in Kinds : \E i \in Threads : At(k, i, o)

PlaceInv == IInv /\ OneSpot /\ ListedOnce /\ InHand /\ Kept

LEMMA SharedType ==
  ASSUME IInv
  PROVE  /\ Shared \in Seq(Ops)
         /\ Len(Shared) = Len(globalHead) + Len(globalTail)
         /\ \A o \in Ops : Has(Shared, o) <=> Has(globalHead, o) \/ Has(globalTail, o)
BY TypesAre, TwoParts DEF Shared

LEMMA SharedGrows ==
  ASSUME IInv, NEW o \in Ops, globalTail' = <<o>> \o globalTail, globalHead' = globalHead
  PROVE  Shared' = Append(Shared, o)
<1>1. globalTail \in Seq(Ops) /\ globalHead \in Seq(Ops)
  BY TypesAre
<1>2. Reverse(<<o>> \o globalTail) = Append(Reverse(globalTail), o)
  BY <1>1, PushedStack
<1>3. Reverse(globalTail) \in Seq(Ops)
  BY <1>1, ReverseType
<1> DEFINE r == Reverse(globalTail)
<1>4. r \in Seq(Ops)
  BY <1>3
<1> HIDE DEF r
<1>5. globalHead \o Append(r, o) = Append(globalHead \o r, o)
  BY <1>1, <1>4
<1> QED
  BY <1>2, <1>5 DEF Shared, r

LEMMA SharedShrinks ==
  ASSUME IInv, GlobalQueue # <<>>, globalHead' = Tail(GlobalQueue),
         globalTail' = IF globalHead = <<>> THEN <<>> ELSE globalTail
  PROVE  Shared # <<>> /\ Head(Shared) = Head(GlobalQueue) /\ Shared' = Tail(Shared)
<1>1. globalTail \in Seq(Ops) /\ globalHead \in Seq(Ops) /\ Reverse(globalTail) \in Seq(Ops)
  BY TypesAre, ReverseType
<1> DEFINE r == Reverse(globalTail)
<1>2. r \in Seq(Ops)
  BY <1>1
<1> HIDE DEF r
<1>3. CASE globalHead # <<>>
  <2>1. GlobalQueue = globalHead /\ globalTail' = globalTail
    BY <1>3 DEF GlobalQueue
  <2>2. Shared = globalHead \o r /\ Shared' = Tail(globalHead) \o r
    BY <2>1 DEF Shared, r
  <2> QED
    BY <1>1, <1>2, <1>3, <2>1, <2>2, HeadOfConcat
<1>4. CASE globalHead = <<>>
  <2>1. GlobalQueue = r /\ globalTail' = <<>>
    BY <1>4 DEF GlobalQueue, r
  <2>2. <<>> \o r = r /\ Tail(r) \o <<>> = Tail(r)
    <3>1. r # <<>>
      BY <2>1
    <3>2. Tail(r) \in Seq(Ops)
      BY <1>2, <3>1
    <3> QED
      BY <1>2, <3>2
  <2>3. Shared = r /\ Shared' = Tail(r)
    BY <1>4, <2>1, <2>2, ReverseEmpty DEF Shared, r
  <2> QED
    BY <2>1, <2>3
<1> QED
  BY <1>3, <1>4

-----------------------------------------------------------------------------
(* One operation goes from one place to another; or everything stays.      *)

Carried(o, k, i, l, j) ==
    /\ At(k, i, o) /\ ~(k = l /\ i = j)
    /\ \A x \in Ops : \A m \in Kinds : \A n \in Threads :
         At(m, n, x)' <=> \/ x = o /\ m = l /\ n = j
                          \/ At(m, n, x) /\ ~(x = o /\ m = k /\ n = i)

LEMMA CarriedKeeps ==
  ASSUME OneSpot, Kept, NEW o \in Ops, NEW k \in Kinds, NEW l \in Kinds,
         NEW i \in Threads, NEW j \in Threads, Carried(o, k, i, l, j),
         \A x \in Ops : x # o => schedules'[x] = schedules[x]
  PROVE  OneSpot' /\ Kept'
<1>1. \A m \in Kinds : \A n \in Threads : At(m, n, o)' <=> m = l /\ n = j
  BY DEF Carried, OneSpot
<1>2. \A x \in Ops : x # o => \A m \in Kinds : \A n \in Threads : At(m, n, x)' <=> At(m, n, x)
  BY DEF Carried
<1>3. OneSpot'
  BY <1>1, <1>2 DEF OneSpot
<1>4. Kept'
  BY <1>1, <1>2 DEF Kept
<1> QED
  BY <1>3, <1>4

\* Nothing moves.
LEMMA NothingMoves ==
  ASSUME PlaceInv, NEW t \in Threads,
         UNCHANGED <<local, globalTail, globalHead, op, finished, schedules>>,
         \A u \in Threads : u # t => pc'[u] = pc[u],
         op[t] = NoOp \/ pc'[t] \in Hands
  PROVE  (OneSpot /\ ListedOnce /\ InHand /\ Kept)'
<1>1. Shared' = Shared
  BY DEF Shared
<1>2. \A k, i, x : At(k, i, x)' <=> At(k, i, x)
  BY <1>1 DEF At
<1>3. OneSpot' /\ Kept'
  BY <1>2 DEF PlaceInv, OneSpot, Kept
<1>4. ListedOnce'
  BY <1>1 DEF PlaceInv, ListedOnce
<1>5. InHand'
  BY ThreadsAre DEF PlaceInv, InHand
<1> QED
  BY <1>3, <1>4, <1>5

LEMMA TypesToo ==
  ASSUME IInv
  PROVE  /\ op \in [Threads -> Ops \cup {NoOp}] /\ schedules \in [Ops -> 0..MaxSchedules]
         /\ scan \in [Threads -> 1..(N + 1)]
         /\ \A w \in Workers : pc[w] \in {"run", "clear", "clearSelf", "clearOthers"} => op[w] \in Ops
BY DEF IInv, TypeOK, Positions

\* A worker takes an operation into its hand.
TakesUp(w, o, k, i) ==
    /\ op[w] = NoOp /\ At(k, i, o)
    /\ op' = [op EXCEPT ![w] = o] /\ UNCHANGED <<finished, schedules>>
    /\ (\A t \in Threads : t # w => pc'[t] = pc[t]) /\ pc'[w] \in Hands
    /\ \A v \in Workers : \A x \in Ops :
          Has(local'[v], x) <=> Has(local[v], x) /\ ~(k = "local" /\ i = v /\ x = o)
    /\ \A x \in Ops : Has(Shared', x) <=> Has(Shared, x) /\ ~(k = "global" /\ x = o)

LEMMA Taken ==
  ASSUME PlaceInv, NEW w \in Workers, NEW o \in Ops,
         NEW k \in {"local", "global"}, NEW i \in Threads, TakesUp(w, o, k, i)
  PROVE  (OneSpot /\ InHand /\ Kept)'
<1>0. op \in [Threads -> Ops \cup {NoOp}] /\ NoOp \notin Ops /\ w \in Threads /\ Main # w
      /\ Main \in Threads /\ Workers \subseteq Threads
  BY TypesToo, ThreadsAre, OpAssumption DEF PlaceInv
<1>1. \A t \in Threads : \A x \in Ops : op'[t] = x <=> op[t] = x \/ (t = w /\ x = o)
  BY <1>0 DEF TakesUp
<1>2. k \in Kinds /\ "hand" \in Kinds /\ k # "hand"
  BY DEF Kinds
<1>3. Carried(o, k, i, "hand", w)
  <2> SUFFICES ASSUME NEW x \in Ops, NEW m \in Kinds, NEW n \in Threads
               PROVE  At(m, n, x)' <=> \/ x = o /\ m = "hand" /\ n = w
                                       \/ At(m, n, x) /\ ~(x = o /\ m = k /\ n = i)
    <3>1. At(k, i, o)
      BY DEF TakesUp
    <3> QED
      BY <1>2, <3>1 DEF Carried
  <2>1. CASE m = "local"
    BY <2>1 DEF At, TakesUp
  <2>2. CASE m = "hand"
    BY <1>0, <1>1, <1>2, <2>2 DEF At, TakesUp
  <2>3. CASE m = "global"
    BY <2>3 DEF At, TakesUp
  <2>4. CASE m = "done"
    BY <1>2, <2>4 DEF At, TakesUp
  <2> QED
    BY <2>1, <2>2, <2>3, <2>4 DEF Kinds
<1>4. OneSpot' /\ Kept'
  BY <1>0, <1>2, <1>3, CarriedKeeps DEF PlaceInv, TakesUp
<1>5. InHand'
  BY <1>0 DEF PlaceInv, InHand, TakesUp
<1> QED
  BY <1>4, <1>5

LEMMA LocalPopPlaces ==
  ASSUME PlaceInv, NEW w \in Workers, LocalPop(w)
  PROVE  (OneSpot /\ ListedOnce /\ InHand /\ Kept)'
<1>0. /\ local \in [Workers -> Seq(Ops)] /\ pc \in [Threads -> WorkerPc \cup MainPc \cup WakePc]
      /\ w \in Threads
  BY TypesAre, ThreadsAre DEF PlaceInv
<1>1. pc[w] = "local" /\ op[w] = NoOp /\ UNCHANGED <<globalTail, globalHead, finished, schedules>>
  BY DEF LocalPop, PlaceInv, InHand, Hands
<1>2. CASE local[w] = <<>>
  <2>1. UNCHANGED <<local, op>> /\ pc' = [pc EXCEPT ![w] = "global"]
    BY <1>2 DEF LocalPop, Goto
  <2>2. \A u \in Threads : u # w => pc'[u] = pc[u]
    BY <1>0, <2>1
  <2> QED
    BY <1>0, <1>1, <2>1, <2>2, NothingMoves
<1>3. CASE local[w] # <<>>
  <2> DEFINE o == Last(local[w])
  <2>1. /\ op' = [op EXCEPT ![w] = o] /\ local' = [local EXCEPT ![w] = Front(@)]
        /\ pc' = [pc EXCEPT ![w] = "run"]
    BY <1>3 DEF LocalPop, Goto
  <2>2. /\ o \in Ops /\ Has(local[w], o) /\ Once(Front(local[w]))
        /\ \A x \in Ops : Has(Front(local[w]), x) <=> x # o /\ Has(local[w], x)
    BY <1>0, <1>3, FrontHas DEF PlaceInv, ListedOnce
  <2> HIDE DEF o
  <2> DEFINE k == "local"
  <2>3. k \in {"local", "global"} /\ At(k, w, o)
    BY <2>2 DEF At
  <2>4. Shared' = Shared
    BY <1>1 DEF Shared
  <2>5. local'[w] = Front(local[w]) /\ \A v \in Workers : v # w => local'[v] = local[v]
    BY <1>0, <2>1
  <2>6. \A v \in Workers : \A x \in Ops :
            Has(local'[v], x) <=> Has(local[v], x) /\ ~(k = "local" /\ w = v /\ x = o)
    BY <2>2, <2>5
  <2>10. \A x \in Ops : Has(Shared', x) <=> Has(Shared, x) /\ ~(k = "global" /\ x = o)
    BY <2>4
  <2> HIDE DEF k
  <2>7. /\ pc'[w] \in Hands /\ \A t \in Threads : t # w => pc'[t] = pc[t]
    BY <1>0, <2>1 DEF Hands
  <2>11. TakesUp(w, o, k, w)
    BY <1>1, <2>1, <2>3, <2>10, <2>6, <2>7 DEF TakesUp
  <2>8. (OneSpot /\ InHand /\ Kept)'
    BY <1>0, <2>2, <2>3, <2>11, Taken
  <2>9. ListedOnce'
    BY <2>2, <2>4, <2>5 DEF PlaceInv, ListedOnce
  <2> QED
    BY <2>8, <2>9
<1> QED
  BY <1>2, <1>3

LEMMA GlobalDequeuePlaces ==
  ASSUME PlaceInv, NEW w \in Workers, GlobalDequeue(w)
  PROVE  (OneSpot /\ ListedOnce /\ InHand /\ Kept)'
<1>0. /\ pc \in [Threads -> WorkerPc \cup MainPc \cup WakePc]
      /\ w \in Threads /\ Main \in Threads
  BY TypesAre, ThreadsAre DEF PlaceInv
<1>1. pc[w] = "global" /\ op[w] = NoOp /\ UNCHANGED <<local, finished, schedules>>
  BY DEF GlobalDequeue, PlaceInv, InHand, Hands
<1>2. CASE GlobalQueue = <<>>
  <2>1. UNCHANGED <<globalTail, globalHead, op>> /\ pc' = [pc EXCEPT ![w] = "steal"]
    BY <1>2 DEF GlobalDequeue, Goto, Start
  <2>2. \A u \in Threads : u # w => pc'[u] = pc[u]
    BY <1>0, <2>1
  <2> QED
    BY <1>0, <1>1, <2>1, <2>2, NothingMoves
<1>3. CASE GlobalQueue # <<>>
  <2> DEFINE o == Head(GlobalQueue)
  <2>1. /\ op' = [op EXCEPT ![w] = o] /\ globalHead' = Tail(GlobalQueue)
        /\ globalTail' = (IF globalHead = <<>> THEN <<>> ELSE globalTail)
        /\ pc' = [pc EXCEPT ![w] = OnFound(w)]
    BY <1>3 DEF GlobalDequeue, Goto
  <2>2. Shared # <<>> /\ Head(Shared) = o /\ Shared' = Tail(Shared)
    BY <1>3, <2>1, SharedShrinks DEF PlaceInv
  <2> HIDE DEF o
  <2>3. /\ o \in Ops /\ Has(Shared, o) /\ Once(Tail(Shared))
        /\ \A x \in Ops : Has(Tail(Shared), x) <=> x # o /\ Has(Shared, x)
    BY <2>2, SharedType, TailHas DEF PlaceInv, ListedOnce
  <2>4. At("global", Main, o)
    BY <2>3 DEF At
  <2>5. \A x \in Ops : Has(Shared', x) <=> Has(Shared, x) /\ ~("global" = "global" /\ x = o)
    BY <2>2, <2>3
  <2>6. \A v \in Workers : \A x \in Ops :
            Has(local'[v], x) <=> Has(local[v], x) /\ ~("global" = "local" /\ Main = v /\ x = o)
    BY <1>1
  <2>7. /\ pc'[w] \in Hands /\ \A t \in Threads : t # w => pc'[t] = pc[t]
    BY <1>0, <2>1 DEF Hands, OnFound
  <2>11. TakesUp(w, o, "global", Main)
    BY <1>1, <2>1, <2>4, <2>5, <2>6, <2>7 DEF TakesUp
  <2>8. (OneSpot /\ InHand /\ Kept)'
    BY <1>0, <2>3, <2>11, Taken
  <2>9. ListedOnce'
    BY <1>1, <2>2, <2>3 DEF PlaceInv, ListedOnce
  <2> QED
    BY <2>8, <2>9
<1> QED
  BY <1>2, <1>3

LEMMA StealPlaces ==
  ASSUME PlaceInv, NEW w \in Workers, Steal(w)
  PROVE  (OneSpot /\ ListedOnce /\ InHand /\ Kept)'
<1>0. /\ local \in [Workers -> Seq(Ops)] /\ pc \in [Threads -> WorkerPc \cup MainPc \cup WakePc]
      /\ w \in Threads /\ N \in Nat \ {0} /\ scan[w] \in 1..(N + 1) /\ Workers \subseteq Threads
  BY TypesAre, TypesToo, ThreadsAre DEF PlaceInv
<1>1. /\ pc[w] = "steal" /\ op[w] = NoOp
      /\ UNCHANGED <<globalTail, globalHead, finished, schedules>>
  BY DEF Steal, PlaceInv, InHand, Hands
<1> DEFINE v == scan[w]
<1>2. CASE v > N \/ v = w \/ local[v] = <<>>
  <2>1. UNCHANGED <<local, op>> /\ \E l : pc' = [pc EXCEPT ![w] = l]
    BY <1>2 DEF Steal, Goto, Start
  <2>2. \A u \in Threads : u # w => pc'[u] = pc[u]
    BY <1>0, <2>1
  <2> QED
    BY <1>0, <1>1, <2>1, <2>2, NothingMoves
<1>3. CASE ~(v > N \/ v = w \/ local[v] = <<>>)
  <2> DEFINE o == Head(local[v])
  <2>0. v \in Workers
    BY <1>0, <1>3 DEF Workers
  <2>1. /\ op' = [op EXCEPT ![w] = o] /\ local' = [local EXCEPT ![v] = Tail(@)]
        /\ pc' = [pc EXCEPT ![w] = OnFound(w)]
    BY <1>3 DEF Steal, Goto
  <2> HIDE DEF v
  <2>2. /\ o \in Ops /\ Has(local[v], o) /\ Once(Tail(local[v]))
        /\ \A x \in Ops : Has(Tail(local[v]), x) <=> x # o /\ Has(local[v], x)
    BY <1>0, <1>3, <2>0, TailHas DEF PlaceInv, ListedOnce
  <2> HIDE DEF o
  <2> DEFINE k == "local"
  <2>3. k \in {"local", "global"} /\ At(k, v, o) /\ v \in Threads
    BY <1>0, <2>0, <2>2 DEF At
  <2>4. Shared' = Shared
    BY <1>1 DEF Shared
  <2>5. local'[v] = Tail(local[v]) /\ \A u \in Workers : u # v => local'[u] = local[u]
    BY <1>0, <2>0, <2>1
  <2>6. \A u \in Workers : \A x \in Ops :
            Has(local'[u], x) <=> Has(local[u], x) /\ ~(k = "local" /\ v = u /\ x = o)
    BY <2>2, <2>5
  <2>10. \A x \in Ops : Has(Shared', x) <=> Has(Shared, x) /\ ~(k = "global" /\ x = o)
    BY <2>4
  <2> HIDE DEF k
  <2>7. /\ pc'[w] \in Hands /\ \A t \in Threads : t # w => pc'[t] = pc[t]
    BY <1>0, <2>1 DEF Hands, OnFound
  <2>11. TakesUp(w, o, k, v)
    BY <1>1, <2>1, <2>3, <2>10, <2>6, <2>7 DEF TakesUp
  <2>8. (OneSpot /\ InHand /\ Kept)'
    BY <1>0, <2>2, <2>3, <2>11, Taken
  <2>9. ListedOnce'
    BY <2>2, <2>4, <2>5 DEF PlaceInv, ListedOnce
  <2> QED
    BY <2>8, <2>9
<1> QED
  BY <1>2, <1>3

\* A worker puts down the operation it has in hand.
PutsDown(w, o, k, i) ==
    /\ op[w] = o /\ op' = [op EXCEPT ![w] = NoOp]
    /\ (k # "local" => i = Main) /\ (k = "local" => i = w)
    /\ \A t \in Threads : t # w => pc'[t] = pc[t]
    /\ \A x \in Ops : x # o => schedules'[x] = schedules[x]
    /\ \A v \in Workers : \A x \in Ops :
          Has(local'[v], x) <=> Has(local[v], x) \/ (k = "local" /\ i = v /\ x = o)
    /\ \A x \in Ops : Has(Shared', x) <=> Has(Shared, x) \/ (k = "global" /\ x = o)
    /\ \A x \in Ops : x \in finished' <=> x \in finished \/ (k = "done" /\ x = o)

LEMMA PutDown ==
  ASSUME PlaceInv, NEW w \in Workers, NEW o \in Ops,
         NEW k \in {"local", "global", "done"}, NEW i \in Threads, PutsDown(w, o, k, i)
  PROVE  (OneSpot /\ InHand /\ Kept)'
<1>0. op \in [Threads -> Ops \cup {NoOp}] /\ NoOp \notin Ops /\ w \in Threads /\ Main # w
      /\ Main \in Threads /\ Workers \subseteq Threads
  BY TypesToo, ThreadsAre, OpAssumption DEF PlaceInv
<1>1. \A t \in Threads : \A x \in Ops : op'[t] = x <=> op[t] = x /\ ~(t = w /\ x = o)
  BY <1>0 DEF PutsDown
<1>2. k \in Kinds /\ "hand" \in Kinds /\ k # "hand"
  BY DEF Kinds
<1>3. Carried(o, "hand", w, k, i)
  <2>0. At("hand", w, o)
    BY <1>0 DEF At, PutsDown
  <2> SUFFICES ASSUME NEW x \in Ops, NEW m \in Kinds, NEW n \in Threads
               PROVE  At(m, n, x)' <=> \/ x = o /\ m = k /\ n = i
                                       \/ At(m, n, x) /\ ~(x = o /\ m = "hand" /\ n = w)
    BY <1>2, <2>0 DEF Carried
  <2>1. CASE m = "local"
    BY <2>1 DEF At, PutsDown
  <2>2. CASE m = "hand"
    BY <1>1, <1>2, <2>2 DEF At, PutsDown
  <2>3. CASE m = "global"
    BY <2>3 DEF At, PutsDown
  <2>4. CASE m = "done"
    BY <2>4 DEF At, PutsDown
  <2> QED
    BY <2>1, <2>2, <2>3, <2>4 DEF Kinds
<1>4. OneSpot' /\ Kept'
  BY <1>0, <1>2, <1>3, CarriedKeeps DEF PlaceInv, PutsDown
<1>5. InHand'
  BY <1>0 DEF PlaceInv, InHand, PutsDown
<1> QED
  BY <1>4, <1>5

LEMMA ReschedulePlaces ==
  ASSUME PlaceInv, NEW w \in Workers, Reschedule(w)
  PROVE  (OneSpot /\ ListedOnce /\ InHand /\ Kept)'
<1>0. /\ local \in [Workers -> Seq(Ops)] /\ pc \in [Threads -> WorkerPc \cup MainPc \cup WakePc]
      /\ schedules \in [Ops -> 0..MaxSchedules]
      /\ w \in Threads /\ Main \in Threads /\ Shared \in Seq(Ops)
  BY TypesAre, TypesToo, ThreadsAre, SharedType DEF PlaceInv
<1> DEFINE o == op[w]
<1>1. /\ pc[w] = "run" /\ o \in Ops /\ UNCHANGED <<globalHead, finished>>
      /\ op' = [op EXCEPT ![w] = NoOp] /\ pc' = [pc EXCEPT ![w] = "wake"]
      /\ schedules' = [schedules EXCEPT ![o] = @ - 1]
      /\ \/ local' = [local EXCEPT ![w] = Append(@, o)] /\ globalTail' = globalTail
         \/ globalTail' = <<o>> \o globalTail /\ local' = local
  BY TypesToo DEF Reschedule, Goto, PlaceInv
<1>2. /\ \A t \in Threads : t # w => pc'[t] = pc[t]
      /\ \A x \in Ops : x # o => schedules'[x] = schedules[x]
  BY <1>0, <1>1
<1>3. /\ ~Has(local[w], o) /\ ~Has(Shared, o)
  <2>1. At("hand", w, o)
    BY <1>0 DEF At
  <2>2. Has(local[w], o) => At("local", w, o)
    BY DEF At
  <2>3. Has(Shared, o) => At("global", Main, o)
    BY DEF At
  <2> HIDE DEF o
  <2> QED
    BY <1>0, <1>1, <2>1, <2>2, <2>3 DEF PlaceInv, OneSpot, Kinds
<1>4. op[w] = o
  OBVIOUS
<1> HIDE DEF o
<1>5. CASE local' = [local EXCEPT ![w] = Append(@, o)] /\ globalTail' = globalTail
  <2> DEFINE k == "local"
  <2>1. k \in {"local", "global", "done"} /\ k = "local"
    OBVIOUS
  <2>2. local'[w] = Append(local[w], o) /\ \A v \in Workers : v # w => local'[v] = local[v]
    BY <1>0, <1>5
  <2>3. /\ \A x \in Ops : Has(Append(local[w], o), x) <=> x = o \/ Has(local[w], x)
        /\ Once(Append(local[w], o))
    BY <1>0, <1>1, <1>3, AppendHas DEF PlaceInv, ListedOnce
  <2>4. Shared' = Shared
    BY <1>1, <1>5 DEF Shared
  <2> HIDE DEF k
  <2>5. \A v \in Workers : \A x \in Ops :
            Has(local'[v], x) <=> Has(local[v], x) \/ (k = "local" /\ w = v /\ x = o)
    BY <2>1, <2>2, <2>3
  <2>6. \A x \in Ops : Has(Shared', x) <=> Has(Shared, x) \/ (k = "global" /\ x = o)
    BY <2>1, <2>4
  <2>7. \A x \in Ops : x \in finished' <=> x \in finished \/ (k = "done" /\ x = o)
    BY <1>1, <2>1
  <2>10. PutsDown(w, o, k, w)
    BY <1>1, <1>2, <1>4, <2>1, <2>5, <2>6, <2>7 DEF PutsDown
  <2>8. (OneSpot /\ InHand /\ Kept)'
    BY <1>0, <1>1, <2>1, <2>10, PutDown
  <2>9. ListedOnce'
    BY <2>2, <2>3, <2>4 DEF PlaceInv, ListedOnce
  <2> QED
    BY <2>8, <2>9
<1>6. CASE globalTail' = <<o>> \o globalTail /\ local' = local
  <2> DEFINE k == "global"
  <2>1. k \in {"local", "global", "done"} /\ k = "global"
    OBVIOUS
  <2>2. Shared' = Append(Shared, o)
    BY <1>1, <1>6, SharedGrows DEF PlaceInv
  <2>3. /\ \A x \in Ops : Has(Append(Shared, o), x) <=> x = o \/ Has(Shared, x)
        /\ Once(Append(Shared, o))
    BY <1>0, <1>1, <1>3, AppendHas DEF PlaceInv, ListedOnce
  <2> HIDE DEF k
  <2>5. \A v \in Workers : \A x \in Ops :
            Has(local'[v], x) <=> Has(local[v], x) \/ (k = "local" /\ Main = v /\ x = o)
    BY <1>6, <2>1
  <2>6. \A x \in Ops : Has(Shared', x) <=> Has(Shared, x) \/ (k = "global" /\ x = o)
    BY <2>1, <2>2, <2>3
  <2>7. \A x \in Ops : x \in finished' <=> x \in finished \/ (k = "done" /\ x = o)
    BY <1>1, <2>1
  <2>10. PutsDown(w, o, k, Main)
    BY <1>1, <1>2, <1>4, <2>1, <2>5, <2>6, <2>7 DEF PutsDown
  <2>8. (OneSpot /\ InHand /\ Kept)'
    BY <1>0, <1>1, <2>1, <2>10, PutDown
  <2>9. ListedOnce'
    BY <1>6, <2>2, <2>3 DEF PlaceInv, ListedOnce
  <2> QED
    BY <2>8, <2>9
<1> QED
  BY <1>1, <1>5, <1>6

LEMMA FinishPlaces ==
  ASSUME PlaceInv, NEW w \in Workers, Finish(w)
  PROVE  (OneSpot /\ ListedOnce /\ InHand /\ Kept)'
<1>0. /\ pc \in [Threads -> WorkerPc \cup MainPc \cup WakePc] /\ w \in Threads /\ Main \in Threads
  BY TypesAre, ThreadsAre DEF PlaceInv
<1> DEFINE o == op[w]
           k == "done"
<1>1. /\ o \in Ops /\ op[w] = o /\ UNCHANGED <<local, globalTail, globalHead, schedules>>
      /\ op' = [op EXCEPT ![w] = NoOp] /\ pc' = [pc EXCEPT ![w] = "local"]
      /\ finished' = finished \cup {o}
  BY TypesToo DEF Finish, Goto, PlaceInv, queues
<1>2. k \in {"local", "global", "done"} /\ k = "done"
  OBVIOUS
<1> HIDE DEF k, o
<1>3. /\ \A t \in Threads : t # w => pc'[t] = pc[t]
      /\ \A x \in Ops : x # o => schedules'[x] = schedules[x]
      /\ \A x \in Ops : x \in finished' <=> x \in finished \/ (k = "done" /\ x = o)
  BY <1>0, <1>1, <1>2
<1>4. Shared' = Shared
  BY <1>1 DEF Shared
<1>5. /\ \A v \in Workers : \A x \in Ops :
            Has(local'[v], x) <=> Has(local[v], x) \/ (k = "local" /\ Main = v /\ x = o)
      /\ \A x \in Ops : Has(Shared', x) <=> Has(Shared, x) \/ (k = "global" /\ x = o)
  BY <1>1, <1>2, <1>4
<1>8. PutsDown(w, o, k, Main)
  BY <1>1, <1>2, <1>3, <1>5 DEF PutsDown
<1>6. (OneSpot /\ InHand /\ Kept)'
  BY <1>0, <1>1, <1>2, <1>8, PutDown
<1>7. ListedOnce'
  BY <1>1, <1>4 DEF PlaceInv, ListedOnce
<1> QED
  BY <1>6, <1>7

LEMMA RemoteSchedulePlaces ==
  ASSUME PlaceInv, NEW o \in Ops, RemoteSchedule(o)
  PROVE  (OneSpot /\ ListedOnce /\ InHand /\ Kept)'
<1>0. /\ Main \in Threads /\ Workers \subseteq Threads /\ local \in [Workers -> Seq(Ops)]
      /\ globalTail \in Seq(Ops) /\ globalHead \in Seq(Ops)
      /\ pc \in [Threads -> WorkerPc \cup MainPc \cup WakePc]
  BY TypesAre, ThreadsAre DEF PlaceInv
<1>1. /\ o \notin Queued \cup Running \cup finished
      /\ globalTail' = <<o>> \o globalTail /\ pc' = [pc EXCEPT ![Main] = "wake"]
      /\ UNCHANGED <<local, globalHead, op, finished, schedules>>
  BY DEF RemoteSchedule, NotScheduled, Goto
<1>2. \A k \in Kinds : \A i \in Threads : ~At(k, i, o)
  <2>1. \A w \in Workers : ~Has(local[w], o)
    <3> SUFFICES ASSUME NEW w \in Workers PROVE ~Has(local[w], o)
      OBVIOUS
    <3>1. local[w] \in Seq(Ops) /\ o \notin ToSet(local[w])
      BY <1>0, <1>1 DEF Queued
    <3> QED
      BY <3>1, HasIsInSet
  <2>2. ~Has(globalTail, o) /\ ~Has(globalHead, o)
    <3>1. o \notin ToSet(globalTail) /\ o \notin ToSet(globalHead)
      <4>1. o \notin Queued
        BY <1>1
      <4> QED
        BY <4>1, Zenon DEF Queued
    <3> QED
      BY <1>0, <3>1, HasIsInSet
  <2>3. ~Has(Shared, o)
    BY <2>2, SharedType DEF PlaceInv
  <2>4. o # NoOp /\ \A t \in Threads : op[t] # o
    BY <1>1, OpAssumption DEF Running
  <2> QED
    BY <1>1, <2>1, <2>3, <2>4 DEF At
<1>3. Shared' = Append(Shared, o) /\ Shared \in Seq(Ops)
  BY <1>1, SharedGrows, SharedType DEF PlaceInv
<1>4. ~Has(Shared, o)
  BY <1>0, <1>2 DEF At, Kinds
<1>5. /\ \A x \in Ops : Has(Shared', x) <=> x = o \/ Has(Shared, x)
      /\ Once(Shared')
  BY <1>3, <1>4, AppendHas DEF PlaceInv, ListedOnce
<1>6. \A x \in Ops : \A k \in Kinds : \A i \in Threads :
         At(k, i, x)' <=> At(k, i, x) \/ (x = o /\ k = "global" /\ i = Main)
  BY <1>1, <1>5 DEF At
<1>7. OneSpot'
  BY <1>2, <1>6 DEF PlaceInv, OneSpot
<1>8. Kept'
  BY <1>1, <1>6 DEF PlaceInv, Kept
<1>9. ListedOnce'
  BY <1>1, <1>5 DEF PlaceInv, ListedOnce
<1>10. InHand'
  <2>1. \A w \in Workers : pc'[w] = pc[w]
    BY <1>0, <1>1, ThreadsAre
  <2> QED
    BY <1>1, <2>1 DEF PlaceInv, InHand
<1> QED
  BY <1>7, <1>8, <1>9, <1>10

\* The steps that leave every operation where it is.
LeavesAll(t) ==
    /\ UNCHANGED <<local, globalTail, globalHead, op, finished, schedules>>
    /\ \A u \in Threads : u # t => pc'[u] = pc[u]
    /\ op[t] = NoOp \/ pc'[t] \in Hands

LEMMA EmptyHand ==
  ASSUME PlaceInv, NEW t \in Threads, t = Main \/ pc[t] \notin Hands
  PROVE  op[t] = NoOp
BY ThreadsAre DEF PlaceInv, InHand, Threads

LEMMA SleeperLeavesAll ==
  ASSUME PlaceInv, NEW w \in Workers, GoToSleep(w)
  PROVE  LeavesAll(w)
<1>0. w \in Threads /\ pc \in [Threads -> WorkerPc \cup MainPc \cup WakePc]
  BY TypesAre, ThreadsAre DEF PlaceInv
<1> SUFFICES /\ pc[w] \notin Hands /\ UNCHANGED <<local, globalTail, globalHead, op, finished, schedules>>
             /\ \E l : pc' = [pc EXCEPT ![w] = l]
  BY <1>0, EmptyHand DEF LeavesAll
<1>1. CASE Spin(w)
  <2>1. pc[w] = "spin" /\ UNCHANGED <<local, globalTail, globalHead, op, finished, schedules>>
    BY <1>1 DEF Spin, queues
  <2>2. \E l : pc' = [pc EXCEPT ![w] = l]
    BY <1>1 DEF Spin, Goto, Start
  <2> QED
    BY <2>1, <2>2 DEF Hands
<1>2. CASE NotifyIntent(w)
  <2>1. pc[w] = "intent" /\ UNCHANGED <<local, globalTail, globalHead, op, finished, schedules>>
    BY <1>2 DEF NotifyIntent, queues
  <2>2. \E l : pc' = [pc EXCEPT ![w] = l]
    BY <1>2 DEF NotifyIntent, Goto, Start
  <2> QED
    BY <2>1, <2>2 DEF Hands
<1>3. CASE PublishIntent(w)
  <2>1. pc[w] = "count" /\ UNCHANGED <<local, globalTail, globalHead, op, finished, schedules>>
    BY <1>3 DEF PublishIntent, queues
  <2>2. \E l : pc' = [pc EXCEPT ![w] = l]
    BY <1>3 DEF PublishIntent, Goto, Start
  <2> QED
    BY <2>1, <2>2 DEF Hands
<1>4. CASE RecheckTail(w)
  <2>1. pc[w] = "recheckTail" /\ UNCHANGED <<local, globalTail, globalHead, op, finished, schedules>>
    BY <1>4 DEF RecheckTail, queues
  <2>2. \E l : pc' = [pc EXCEPT ![w] = l]
    BY <1>4 DEF RecheckTail, Goto, Start
  <2> QED
    BY <2>1, <2>2 DEF Hands
<1>5. CASE RecheckHead(w)
  <2>1. pc[w] = "recheckHead" /\ UNCHANGED <<local, globalTail, globalHead, op, finished, schedules>>
    BY <1>5 DEF RecheckHead, queues
  <2>2. \E l : pc' = [pc EXCEPT ![w] = l]
    BY <1>5 DEF RecheckHead, Goto, Start
  <2> QED
    BY <2>1, <2>2 DEF Hands
<1>6. CASE RecheckLocal(w)
  <2>1. pc[w] = "recheckLocal" /\ UNCHANGED <<local, globalTail, globalHead, op, finished, schedules>>
    BY <1>6 DEF RecheckLocal, queues
  <2>2. \E l : pc' = [pc EXCEPT ![w] = l]
    BY <1>6 DEF RecheckLocal, Goto, Start
  <2> QED
    BY <2>1, <2>2 DEF Hands
<1>7. CASE CheckStop(w)
  <2>1. pc[w] = "checkStop" /\ UNCHANGED <<local, globalTail, globalHead, op, finished, schedules>>
    BY <1>7 DEF CheckStop, queues
  <2>2. \E l : pc' = [pc EXCEPT ![w] = l]
    BY <1>7 DEF CheckStop, Goto, Start
  <2> QED
    BY <2>1, <2>2 DEF Hands
<1>8. CASE Sleep(w)
  <2>1. pc[w] = "sleep" /\ UNCHANGED <<local, globalTail, globalHead, op, finished, schedules>>
    BY <1>8 DEF Sleep, queues
  <2>2. \E l : pc' = [pc EXCEPT ![w] = l]
    BY <1>8 DEF Sleep, Goto, Start
  <2> QED
    BY <2>1, <2>2 DEF Hands
<1> QED
  BY <1>1, <1>2, <1>3, <1>4, <1>5, <1>6, <1>7, <1>8 DEF GoToSleep

LEMMA ClearingLeavesAll ==
  ASSUME PlaceInv, NEW w \in Workers, ClearIntent(w) \/ ClearSelf(w) \/ ClearOthers(w)
  PROVE  LeavesAll(w)
<1>0. w \in Threads /\ pc \in [Threads -> WorkerPc \cup MainPc \cup WakePc]
  BY TypesAre, ThreadsAre DEF PlaceInv
<1>1. UNCHANGED <<local, globalTail, globalHead, op, finished, schedules>>
  BY DEF ClearIntent, ClearSelf, ClearOthers, queues
<1>2. \E l \in Hands : pc' = [pc EXCEPT ![w] = l]
  <2>1. CASE ClearIntent(w)
    BY <2>1 DEF ClearIntent, ClaimWake, Goto, Start, Hands
  <2>2. CASE ClearSelf(w)
    BY <2>2 DEF ClearSelf, TryWakeUp, Goto, Start, Hands
  <2>3. CASE ClearOthers(w)
    BY <2>3 DEF ClearOthers, TryWakeUp, Goto, Start, Hands
  <2> QED
    BY <2>1, <2>2, <2>3
<1> QED
  BY <1>0, <1>1, <1>2 DEF LeavesAll

LEMMA WakingLeavesAll ==
  ASSUME PlaceInv, NEW t \in Threads, Wake(t)
  PROVE  LeavesAll(t)
<1>0. pc \in [Threads -> WorkerPc \cup MainPc \cup WakePc]
  BY TypesAre DEF PlaceInv
<1>1. UNCHANGED <<local, globalTail, globalHead, op, finished, schedules>>
  BY DEF Wake, WakeOne, WakeScan, SetEvent, queues
<1>2. CASE WakeOne(t) \/ WakeScan(t)
  <2>1. pc[t] \notin Hands /\ \E l : pc' = [pc EXCEPT ![t] = l]
    BY <1>2 DEF WakeOne, WakeScan, ClaimWake, TryWakeUp, Goto, Start, Hands
  <2> QED
    BY <1>0, <1>1, <2>1, EmptyHand DEF LeavesAll
<1>3. CASE SetEvent(t)
  <2>1. pc' = [pc EXCEPT ![t] = AfterWake(t)]
    BY <1>3 DEF SetEvent, Start, Goto
  <2>2. op[t] = NoOp \/ AfterWake(t) \in Hands
    BY EmptyHand DEF AfterWake, Hands
  <2> QED
    BY <1>0, <1>1, <2>1, <2>2 DEF LeavesAll
<1> QED
  BY <1>2, <1>3 DEF Wake

LEMMA StoppingLeavesAll ==
  ASSUME PlaceInv, RequestStop \/ ShutdownWake \/ Join
  PROVE  LeavesAll(Main)
<1>0. Main \in Threads /\ pc \in [Threads -> WorkerPc \cup MainPc \cup WakePc]
  BY TypesAre, ThreadsAre DEF PlaceInv
<1>1. /\ UNCHANGED <<local, globalTail, globalHead, op, finished, schedules>>
      /\ \E l : pc' = [pc EXCEPT ![Main] = l]
  <2>1. CASE RequestStop
    BY <2>1 DEF RequestStop, Start, Goto, queues
  <2>2. CASE ShutdownWake
    BY <2>2 DEF ShutdownWake, TryWakeUp, Start, Goto, queues
  <2>3. CASE Join
    BY <2>3 DEF Join, Goto, queues
  <2> QED
    BY <2>1, <2>2, <2>3
<1> QED
  BY <1>0, <1>1, EmptyHand DEF LeavesAll

LEMMA InitPlaces == Init => PlaceInv
<1> SUFFICES ASSUME Init PROVE PlaceInv
  OBVIOUS
<1>1. /\ globalTail = <<>> /\ globalHead = <<>> /\ \A w \in Workers : local[w] = <<>>
      /\ op = [t \in Threads |-> NoOp] /\ finished = {}
      /\ schedules = [o \in Ops |-> MaxSchedules] /\ NoOp \notin Ops
      /\ Workers \subseteq Threads /\ Main \in Threads
  BY OpAssumption, ThreadsAre DEF Init
<1>2. Shared = <<>>
  BY <1>1, ReverseEmpty DEF Shared
<1>3. Len(<<>>) = 0 /\ \A i \in 1..0 : FALSE
  OBVIOUS
<1>4. (\A o \in Ops : ~Has(<<>>, o)) /\ Once(<<>>)
  BY <1>3 DEF Has, Once
<1>5. \A o \in Ops : \A k \in Kinds : \A i \in Threads : ~At(k, i, o)
  BY <1>1, <1>2, <1>4 DEF At
<1>6. OneSpot
  BY <1>5 DEF OneSpot
<1>7. ListedOnce
  BY <1>1, <1>2, <1>4 DEF ListedOnce
<1>8. InHand
  BY <1>1 DEF InHand
<1>9. Kept
  BY <1>1, BoundAssumption DEF Kept
<1> QED
  BY <1>6, <1>7, <1>8, <1>9, InitInvariant DEF PlaceInv

LEMMA NextPlaces == PlaceInv /\ [Next]_vars => PlaceInv'
<1> SUFFICES ASSUME PlaceInv, [Next]_vars PROVE PlaceInv'
  OBVIOUS
<1>1. IInv'
  BY Step DEF PlaceInv
<1> SUFFICES (OneSpot /\ ListedOnce /\ InHand /\ Kept)'
  BY <1>1 DEF PlaceInv
<1>2. ASSUME NEW t \in Threads, LeavesAll(t)
      PROVE  (OneSpot /\ ListedOnce /\ InHand /\ Kept)'
  BY <1>2, NothingMoves DEF LeavesAll
<1>3. ASSUME NEW w \in Workers, RunWorker(w)
      PROVE  (OneSpot /\ ListedOnce /\ InHand /\ Kept)'
  <2>0. w \in Threads
    BY ThreadsAre
  <2>1. CASE FindWork(w)
    BY <2>1, LocalPopPlaces, GlobalDequeuePlaces, StealPlaces DEF FindWork
  <2>2. CASE Reschedule(w) \/ Finish(w)
    BY <2>2, ReschedulePlaces, FinishPlaces
  <2>3. CASE GoToSleep(w)
    BY <1>2, <2>0, <2>3, SleeperLeavesAll
  <2>4. CASE Wake(w)
    BY <1>2, <2>0, <2>4, WakingLeavesAll
  <2>5. CASE ClearIntent(w) \/ ClearSelf(w) \/ ClearOthers(w)
    BY <1>2, <2>0, <2>5, ClearingLeavesAll
  <2> QED
    BY <1>3, <2>1, <2>2, <2>3, <2>4, <2>5 DEF RunWorker
<1>4. CASE Application
  <2>0. Main \in Threads
    BY ThreadsAre
  <2>1. CASE \E o \in Ops : RemoteSchedule(o)
    BY <2>1, RemoteSchedulePlaces
  <2>2. CASE RequestStop \/ ShutdownWake \/ Join
    BY <1>2, <2>0, <2>2, StoppingLeavesAll
  <2>3. CASE Wake(Main)
    BY <1>2, <2>0, <2>3, WakingLeavesAll
  <2> QED
    BY <1>4, <2>1, <2>2, <2>3 DEF Application
<1>5. CASE UNCHANGED vars
  <2>1. /\ UNCHANGED <<local, globalTail, globalHead, op, finished, schedules, pc>>
        /\ Main \in Threads
    BY <1>5, ThreadsAre DEF vars, queues, threadVars
  <2>2. LeavesAll(Main)
    BY <2>1, EmptyHand DEF LeavesAll
  <2> QED
    BY <1>2, <2>1, <2>2
<1> QED
  BY <1>3, <1>4, <1>5 DEF Next

(* An operation is in one place: in one queue, once, or in the hands of    *)
(* one worker that is about to run it, or finished; one that was scheduled *)
(* again is still somewhere (static_thread_pool.cpp:256-286, 500-560).     *)
THEOREM EachInOnePlace == Spec => []PlaceInv
BY InitPlaces, NextPlaces, PTL DEF Spec

\* The numbers that OnePlace counts are the places of PlaceInv.
InDeque(o) == UNION {{w} \X PlacesIn(o, local[w]) : w \in Workers}

LEMMA CountedPlaces ==
  ASSUME PlaceInv, NEW o \in Ops
  PROVE  /\ Cardinality(InDeque(o)) = IF \E w \in Workers : At("local", w, o) THEN 1 ELSE 0
         /\ Cardinality(PlacesIn(o, globalTail)) + Cardinality(PlacesIn(o, globalHead))
              = IF At("global", Main, o) THEN 1 ELSE 0
         /\ Cardinality({t \in Threads : op[t] = o})
              = IF \E t \in Threads : At("hand", t, o) THEN 1 ELSE 0
<1>0. /\ local \in [Workers -> Seq(Ops)] /\ globalTail \in Seq(Ops) /\ globalHead \in Seq(Ops)
      /\ Workers \subseteq Threads /\ Main \in Threads
  BY TypesAre, ThreadsAre DEF PlaceInv
<1>1. Cardinality(InDeque(o)) = IF \E w \in Workers : At("local", w, o) THEN 1 ELSE 0
  <2>1. CASE ~ \E w \in Workers : At("local", w, o)
    <3>1. \A w \in Workers : PlacesIn(o, local[w]) = {}
      BY <2>1 DEF At, Has, PlacesIn
    <3>2. InDeque(o) = {}
      BY <3>1 DEF InDeque
    <3> QED
      BY <2>1, <3>2, FS_EmptySet
  <2>2. CASE \E w \in Workers : At("local", w, o)
    <3>1. PICK w \in Workers : At("local", w, o)
      BY <2>2
    <3>2. PICK i \in 1..Len(local[w]) : local[w][i] = o
      BY <3>1 DEF At, Has
    <3>3. \A j \in 1..Len(local[w]) : local[w][j] = o => j = i
      BY <3>2 DEF PlaceInv, ListedOnce, Once
    <3>4. PlacesIn(o, local[w]) = {i}
      BY <3>2, <3>3 DEF PlacesIn
    <3>5. \A v \in Workers : v # w => ~At("local", v, o)
      BY <1>0, <3>1 DEF PlaceInv, OneSpot, Kinds
    <3>6. \A v \in Workers : v # w => PlacesIn(o, local[v]) = {}
      BY <3>5 DEF At, Has, PlacesIn
    <3>7. InDeque(o) = {<<w, i>>}
      BY <3>4, <3>6 DEF InDeque
    <3> QED
      BY <2>2, <3>7, FS_Singleton
  <2> QED
    BY <2>1, <2>2
<1>2. Cardinality(PlacesIn(o, globalTail)) + Cardinality(PlacesIn(o, globalHead))
        = IF At("global", Main, o) THEN 1 ELSE 0
  <2>1. /\ Has(Shared, o) <=> Has(globalHead, o) \/ Has(globalTail, o)
        /\ Once(globalHead) /\ Once(globalTail) /\ ~(Has(globalHead, o) /\ Has(globalTail, o))
    BY <1>0, TwoParts DEF PlaceInv, ListedOnce, Shared
  <2>2. /\ Cardinality(PlacesIn(o, globalTail)) = IF Has(globalTail, o) THEN 1 ELSE 0
        /\ Cardinality(PlacesIn(o, globalHead)) = IF Has(globalHead, o) THEN 1 ELSE 0
    BY <1>0, <2>1, OccursOnce DEF PlacesIn
  <2>3. At("global", Main, o) <=> Has(Shared, o)
    BY DEF At
  <2> QED
    BY <2>1, <2>2, <2>3
<1>3. Cardinality({t \in Threads : op[t] = o})
        = IF \E t \in Threads : At("hand", t, o) THEN 1 ELSE 0
  <2>1. CASE ~ \E t \in Threads : At("hand", t, o)
    <3>1. {t \in Threads : op[t] = o} = {}
      BY <2>1 DEF At
    <3> QED
      BY <2>1, <3>1, FS_EmptySet
  <2>2. CASE \E t \in Threads : At("hand", t, o)
    <3>1. PICK t \in Threads : At("hand", t, o)
      BY <2>2
    <3>2. op[t] = o /\ \A u \in Threads : op[u] = o => At("hand", u, o)
      BY <3>1 DEF At
    <3>3. \A u \in Threads : op[u] = o => u = t
      BY <3>1, <3>2 DEF PlaceInv, OneSpot, Kinds
    <3>4. {u \in Threads : op[u] = o} = {t}
      BY <3>2, <3>3
    <3> QED
      BY <2>2, <3>4, FS_Singleton
  <2> QED
    BY <2>1, <2>2
<1> QED
  BY <1>1, <1>2, <1>3

LEMMA PlacesAreOne == PlaceInv => OnePlace
<1> SUFFICES ASSUME PlaceInv, NEW o \in Ops
             PROVE  Places(o) <= 1 /\ (schedules[o] < MaxSchedules => Places(o) = 1)
  BY DEF OnePlace
<1> DEFINE inDeque == \E w \in Workers : At("local", w, o)
           inHand == \E t \in Threads : At("hand", t, o)
           inShared == At("global", Main, o)
           isDone == o \in finished
<1>0. Workers \subseteq Threads /\ Main \in Threads
  BY ThreadsAre
<1>1. Places(o) = (IF inDeque THEN 1 ELSE 0) + (IF inShared THEN 1 ELSE 0)
                  + (IF inHand THEN 1 ELSE 0) + (IF isDone THEN 1 ELSE 0)
  <2> DEFINE a == Cardinality(InDeque(o))
             b == Cardinality(PlacesIn(o, globalTail))
             c == Cardinality(PlacesIn(o, globalHead))
             d == Cardinality({t \in Threads : op[t] = o})
  <2>1. Places(o) = a + b + c + d + (IF isDone THEN 1 ELSE 0)
    BY DEF Places, InDeque
  <2>2. /\ a = (IF inDeque THEN 1 ELSE 0) /\ b + c = (IF inShared THEN 1 ELSE 0)
        /\ d = (IF inHand THEN 1 ELSE 0)
    BY CountedPlaces
  <2>3. b \in Nat /\ c \in Nat
    <3>1. IsFiniteSet(PlacesIn(o, globalTail)) /\ IsFiniteSet(PlacesIn(o, globalHead))
      <4>1. Len(globalTail) \in Nat /\ Len(globalHead) \in Nat
        BY TypesAre DEF PlaceInv
      <4>2. IsFiniteSet(1..Len(globalTail)) /\ IsFiniteSet(1..Len(globalHead))
        BY <4>1, FS_Interval
      <4> QED
        BY <4>2, FS_Subset DEF PlacesIn
    <3> QED
      BY <3>1, FS_CardinalityType
  <2> HIDE DEF a, b, c, d, inDeque, inShared, inHand, isDone
  <2> QED
    BY <2>1, <2>2, <2>3
<1>2. isDone <=> At("done", Main, o)
  BY DEF At
<1>3. /\ ~(inDeque /\ inHand) /\ ~(inDeque /\ inShared) /\ ~(inDeque /\ isDone)
      /\ ~(inHand /\ inShared) /\ ~(inHand /\ isDone) /\ ~(inShared /\ isDone)
  BY <1>0, <1>2 DEF PlaceInv, OneSpot, Kinds
<1>4. schedules[o] < MaxSchedules => inDeque \/ inHand \/ inShared \/ isDone
  <2> SUFFICES ASSUME schedules[o] < MaxSchedules
               PROVE  inDeque \/ inHand \/ inShared \/ isDone
    OBVIOUS
  <2>1. PICK k \in Kinds, i \in Threads : At(k, i, o)
    BY DEF PlaceInv, Kept
  <2> QED
    BY <2>1 DEF At, Kinds
<1> HIDE DEF inDeque, inShared, inHand, isDone
<1> QED
  BY <1>1, <1>3, <1>4

(* An operation is in one place: in one queue once, or with one thread, or *)
(* finished; it is neither lost nor run twice by two thieves, however many *)
(* threads there are (static_thread_pool.cpp:124-212, 500-560).            *)
THEOREM OperationsStayInOnePlace == Spec => []OnePlace
BY EachInOnePlace, PlacesAreOne, PTL
=============================================================================
