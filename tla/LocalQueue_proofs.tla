-------------------------- MODULE LocalQueue_proofs --------------------------
(***************************************************************************)
(* The ring buffer of one worker is a deque, for every width of the        *)
(* cursors, every size of the buffer and any number of thieves.            *)
(***************************************************************************)
EXTENDS LocalQueue, ListLemmas

M == 2^W
Half == 2^(W - 1)
Size == mask + 1

WorkerPc == {"idle", "write", "grow", "claim", "look", "settle", "pop"}
ThiefPc == {"idle", "look", "claim", "check", "steal", "restore"}

Types ==
    /\ mask \in Nat /\ Size <= MemoryLimit /\ \E k \in 1..W : Size = 2^k
    /\ buf \in [0..mask -> Ops \cup {NoOp}]
    /\ pc \in [Threads -> WorkerPc \cup ThiefPc]
    /\ pc[Worker] \in WorkerPc /\ \A t \in Thieves : pc[t] \in ThiefPc
    /\ seen \in [Threads -> Int]
    /\ operation \in Ops \cup {NoOp}
    /\ deque \in Seq(Ops)

Held == lock \in Thieves \cup {Nobody} /\ \A t \in Thieves : lock = t <=> pc[t] # "idle"

Items ==
    /\ Once(deque)
    /\ Len(deque) <= Size
    /\ pc[Worker] \in {"write", "grow"} => operation \in Ops /\ ~Has(deque, operation)
    /\ pc[Worker] = "write" => Len(deque) < Size
    /\ pc[Worker] = "pop" => Len(deque) > 0
    /\ \A t \in Thieves : pc[t] = "steal" =>
          Len(deque) > IF pc[Worker] = "pop" THEN 1 ELSE 0

\* The cursors without their wrapping: b counts what was ever stolen.
Claimed == \E t \in Thieves : pc[t] \in {"check", "steal", "restore"}
Lowered == pc[Worker] \in {"look", "settle", "pop"}
Low(b) == IF Claimed THEN b + 1 ELSE b
High(b) == IF Lowered THEN b + Len(deque) - 1 ELSE b + Len(deque)

Cursors(b) ==
    /\ tail = Low(b) % M
    /\ head = High(b) % M
    /\ pc[Worker] \in {"claim", "look", "settle"} => seen[Worker] = (b + Len(deque)) % M
    /\ \A t \in Thieves : pc[t] \in {"claim", "check", "steal", "restore"} => seen[t] = b % M

Slots(b) == \A n \in 1..Len(deque) : buf[(b + n - 1) % Size] = deque[n]

IInv == Types /\ Held /\ Items /\ \E b \in Int : Cursors(b) /\ Slots(b)

-----------------------------------------------------------------------------
(* Remainders.                                                             *)

LEMMA DivMod ==
  ASSUME NEW n \in Nat \ {0}, NEW a \in Int
  PROVE  a % n \in 0..(n - 1) /\ \E q \in Int : a = (n * q) + (a % n)
<1>1. a % n \in 0..(n - 1) /\ a = (n * (a \div n)) + (a % n) /\ a \div n \in Int
  OBVIOUS
<1> QED
  BY <1>1

LEMMA Unique ==
  ASSUME NEW n \in Nat \ {0}, NEW q \in Int, NEW r \in 0..(n-1), NEW a \in Int, a = (n * q) + r
  PROVE  a % n = r
OBVIOUS

LEMMA Multiple ==
  ASSUME NEW n \in Nat \ {0}, NEW k \in Int, NEW d \in Int, d = n * k, d < n, -n < d
  PROVE  d = 0
OBVIOUS

LEMMA SameRemainder ==
  ASSUME NEW n \in Nat \ {0}, NEW a \in Int, NEW b \in Int, a % n = b % n, a - b < n, b - a < n
  PROVE  a = b
<1>1. PICK p \in Int : a = (n * p) + (a % n)
  BY DivMod
<1>2. PICK q \in Int : b = (n * q) + (b % n)
  BY DivMod
<1>3. a - b = n * (p - q)
  BY <1>1, <1>2
<1>4. -n < a - b
  OBVIOUS
<1> QED
  BY <1>3, <1>4, Multiple

LEMMA AddMod ==
  ASSUME NEW n \in Nat \ {0}, NEW a \in Int, NEW b \in Int
  PROVE  ((a % n) + b) % n = (a + b) % n
<1>1. PICK p \in Int : a = (n * p) + (a % n)
  BY DivMod
<1>2. a % n \in Int
  BY DivMod
<1> DEFINE c == (a % n) + b
           r == c % n
<1>3. c \in Int
  BY <1>2
<1>4. r \in 0..(n - 1) /\ \E q \in Int : c = (n * q) + r
  BY <1>3, DivMod
<1>5. PICK q \in Int : c = (n * q) + r
  BY <1>4
<1> DEFINE m == p + q
           x == a + b
<1>6. m \in Int /\ a + b \in Int /\ a + b = (n * m) + r
  BY <1>1, <1>5
<1> HIDE DEF r, m, x
<1>7. x \in Int /\ m \in Int /\ x = (n * m) + r
  BY <1>6 DEF x
<1>8. x % n = r
  BY <1>4, <1>7, Unique
<1> QED
  BY <1>8 DEF r, x

LEMMA SubMod ==
  ASSUME NEW n \in Nat \ {0}, NEW a \in Int, NEW b \in Int
  PROVE  ((a % n) - (b % n)) % n = (a - b) % n
<1>1. PICK p \in Int : a = (n * p) + (a % n)
  BY DivMod
<1>2. PICK q \in Int : b = (n * q) + (b % n)
  BY DivMod
<1> DEFINE d == (a % n) - (b % n)
           r == d % n
<1>3. a % n \in Int /\ b % n \in Int /\ d \in Int
  BY DivMod
<1>4. r \in 0..(n - 1) /\ \E k \in Int : d = (n * k) + r
  BY <1>3, DivMod
<1>5. PICK k \in Int : d = (n * k) + r
  BY <1>4
<1> DEFINE m == (p - q) + k
           x == a - b
<1>6. m \in Int /\ n * m = ((n * p) - (n * q)) + (n * k)
  OBVIOUS
<1>7. x = ((n * p) - (n * q)) + d
  BY <1>1, <1>2, <1>3
<1> HIDE DEF r, m, d
<1>8. x \in Int /\ x = (n * m) + r
  BY <1>3, <1>4, <1>5, <1>6, <1>7
<1> HIDE DEF x
<1>9. x % n = r
  BY <1>4, <1>6, <1>8, Unique
<1> QED
  BY <1>9 DEF r, x, d

LEMMA ModOfMod ==
  ASSUME NEW s \in Nat \ {0}, NEW k \in Nat \ {0}, NEW n \in Nat \ {0}, n = s * k, NEW a \in Int
  PROVE  (a % n) % s = a % s
<1>1. PICK p \in Int : a = (n * p) + (a % n)
  BY DivMod
<1>2. a % n \in Int
  BY DivMod
<1> DEFINE r == (a % n) % s
<1>3. r \in 0..(s - 1) /\ \E q \in Int : a % n = (s * q) + r
  BY <1>2, DivMod
<1>4. PICK q \in Int : a % n = (s * q) + r
  BY <1>3
<1> DEFINE m == (k * p) + q
<1> HIDE DEF r
<1>5. m \in Int /\ (s * m) + r = (s * (k * p)) + ((s * q) + r)
  BY <1>3
<1>6. s * (k * p) = n * p
  OBVIOUS
<1>7. a = (s * m) + r
  BY <1>1, <1>4, <1>5, <1>6
<1> HIDE DEF m
<1>8. a % s = r
  BY <1>3, <1>5, <1>7, Unique
<1> QED
  BY <1>8 DEF r

-----------------------------------------------------------------------------
(* Sizes, distances and slots.                                             *)

LEMMA Powers ==
  /\ M \in Nat \ {0} /\ Half \in Nat \ {0} /\ M = 2 * Half /\ MemoryLimit \in Nat /\ MemoryLimit < Half
  /\ \A k \in 1..W : 2^k \in Nat /\ 2^k >= 2 /\ \E f \in Nat \ {0} : M = 2^k * f
<1>1. W \in 0..W /\ W - 1 \in 0..W /\ (W - 1) + 1 = W /\ MemoryLimit \in Nat
  BY SizeAssumption
<1>2. M \in Nat \ {0} /\ Half \in Nat \ {0} /\ M = 2 * Half
  BY <1>1, PowerAssumption DEF M, Half
<1>3. ASSUME NEW k \in 1..W
      PROVE  2^k \in Nat /\ 2^k >= 2 /\ \E f \in Nat \ {0} : M = 2^k * f
  <2>1. k \in 0..W /\ k - 1 \in 0..W /\ (k - 1) + 1 = k /\ W - k \in 0..W
    BY SizeAssumption
  <2> QED
    BY <2>1, PowerAssumption DEF M
<1> QED
  BY <1>1, <1>2, <1>3, SizeAssumption DEF Half

LEMMA Sizes ==
  ASSUME Types
  PROVE  /\ Size \in Nat /\ Size >= 2 /\ Size < Half
         /\ \E f \in Nat \ {0} : M = Size * f
<1>1. PICK k \in 1..W : Size = 2^k
  BY DEF Types
<1>2. Size \in Nat /\ Size >= 2 /\ \E f \in Nat \ {0} : M = Size * f
  BY <1>1, Powers
<1>3. Size <= MemoryLimit
  BY DEF Types
<1> QED
  BY <1>2, <1>3, Powers

\* A distance below half of the range survives the wrapping.
LEMMA Distance ==
  ASSUME NEW h \in Int, NEW l \in Int, h - l < Half, l - h <= Half
  PROVE  Difference(h % M, l % M) = h - l
<1>1. ((h % M) - (l % M)) % M = (h - l) % M
  BY Powers, SubMod
<1> DEFINE d == h - l
<1>2. d \in Int /\ d < Half /\ -Half <= d
  BY Powers
<1>3. (IF d % M >= Half THEN (d % M) - M ELSE d % M) = d
  <2> HIDE DEF d
  <2>1. CASE d >= 0
    <3>1. d = (M * 0) + d /\ d \in 0..(M - 1)
      BY <1>2, <2>1, Powers
    <3>2. d % M = d
      BY <3>1, Powers, Unique
    <3> QED
      BY <1>2, <3>2, Powers
  <2>2. CASE d < 0
    <3>1. d = (M * (-1)) + (d + M) /\ d + M \in 0..(M - 1)
      BY <1>2, <2>2, Powers
    <3>2. d % M = d + M
      BY <3>1, Powers, Unique
    <3> QED
      BY <1>2, <3>2, Powers
  <2> QED
    BY <1>2, <2>1, <2>2
<1> QED
  BY <1>1, <1>3 DEF Difference, M, Half

LEMMA SlotOf ==
  ASSUME Types, NEW i \in Int
  PROVE  Slot(i % M) = i % Size
<1>1. PICK f \in Nat \ {0} : M = Size * f
  BY Sizes
<1> QED
  BY <1>1, Sizes, Powers, ModOfMod DEF Slot, Size

LEMMA ReducedTwice ==
  ASSUME NEW s \in Nat \ {0}, \E f \in Nat \ {0} : M = s * f, NEW a \in Int
  PROVE  (a % M) % s = a % s
<1>1. PICK f \in Nat \ {0} : M = s * f
  OBVIOUS
<1>2. M \in Nat \ {0}
  BY Powers
<1> QED
  BY ZenonT(60), <1>1, <1>2, ModOfMod

LEMMA Moved ==
  ASSUME NEW i \in Int, NEW n \in Int
  PROVE  Add(i % M, n) = (i + n) % M
BY Powers, AddMod DEF Add, M

LEMMA OtherSlots ==
  ASSUME NEW s \in Nat \ {0}, NEW i \in Int, NEW j \in Int, i # j, i - j < s, j - i < s
  PROVE  i % s # j % s
BY SameRemainder

\* What the two looks at the cursors see.
LEMMA Apart ==
  ASSUME Types, Items, NEW b \in Int, Cursors(b)
  PROVE  /\ Len(deque) \in Nat /\ Low(b) \in Int /\ High(b) \in Int
         /\ Difference(head, tail) = High(b) - Low(b)
         /\ Difference(head, b % M) = High(b) - b
<1>1. Len(deque) \in Nat /\ Low(b) \in Int /\ High(b) \in Int
      /\ Low(b) \in {b, b + 1} /\ High(b) - b \in -1..Len(deque)
  BY DEF Types, Low, High
<1>2. Len(deque) < Half /\ Half >= 3 /\ Half \in Nat
  BY <1>1, Sizes, Powers DEF Items
<1>3. /\ High(b) - Low(b) < Half /\ Low(b) - High(b) <= Half
      /\ High(b) - b < Half /\ b - High(b) <= Half
  BY <1>1, <1>2
<1>4. /\ Difference(High(b) % M, Low(b) % M) = High(b) - Low(b)
      /\ Difference(High(b) % M, b % M) = High(b) - b
  BY <1>1, <1>3, Distance
<1> QED
  BY <1>1, <1>4 DEF Cursors
-----------------------------------------------------------------------------
(* Who moves.                                                              *)

LEMMA WorkerGoes ==
  ASSUME Types, NEW l \in WorkerPc, Goto(Worker, l)
  PROVE  /\ pc' \in [Threads -> WorkerPc \cup ThiefPc]
         /\ pc'[Worker] = l /\ \A t \in Thieves : pc'[t] = pc[t]
         /\ Claimed' <=> Claimed
         /\ Held /\ lock' = lock => Held'
<1>1. Worker \in Threads /\ \A t \in Thieves : t \in Threads /\ t # Worker
  BY ThreadAssumption DEF Threads
<1>2. /\ pc' \in [Threads -> WorkerPc \cup ThiefPc]
      /\ pc'[Worker] = l /\ \A t \in Thieves : pc'[t] = pc[t]
  BY <1>1 DEF Types, Goto
<1> QED
  BY <1>2 DEF Claimed, Held

LEMMA ThiefGoes ==
  ASSUME Types, NEW t \in Thieves, NEW l \in ThiefPc, Goto(t, l)
  PROVE  /\ pc' \in [Threads -> WorkerPc \cup ThiefPc]
         /\ pc'[Worker] = pc[Worker] /\ pc'[t] = l
         /\ \A u \in Thieves \ {t} : pc'[u] = pc[u]
         /\ \A u \in Thieves : pc'[u] \in ThiefPc
         /\ Lowered' <=> Lowered
<1>1. Worker \in Threads /\ Worker # t /\ t \in Threads /\ \A u \in Thieves : u \in Threads
  BY ThreadAssumption DEF Threads
<1>2. /\ pc' \in [Threads -> WorkerPc \cup ThiefPc]
      /\ pc'[Worker] = pc[Worker] /\ pc'[t] = l
      /\ \A u \in Thieves \ {t} : pc'[u] = pc[u]
  BY <1>1 DEF Types, Goto
<1>3. \A u \in Thieves : pc'[u] \in ThiefPc
  BY <1>2 DEF Types
<1> QED
  BY <1>2, <1>3 DEF Lowered

\* A thief that is under way holds the mutex, and the others are idle.
LEMMA OnlyHolder ==
  ASSUME Held, NEW t \in Thieves, pc[t] # "idle"
  PROVE  lock = t /\ \A u \in Thieves \ {t} : pc[u] = "idle"
BY DEF Held

LEMMA NoHolder ==
  ASSUME Held, lock = Nobody
  PROVE  \A t \in Thieves : pc[t] = "idle"
BY ThreadAssumption DEF Held, Nobody

LEMMA SameTypes ==
  ASSUME Types, UNCHANGED <<buf, mask>>,
         pc' \in [Threads -> WorkerPc \cup ThiefPc],
         pc'[Worker] \in WorkerPc, \A t \in Thieves : pc'[t] \in ThiefPc,
         seen' \in [Threads -> Int], operation' \in Ops \cup {NoOp}, deque' \in Seq(Ops)
  PROVE  Types'
BY DEF Types, Size

LEMMA SameSlots ==
  ASSUME NEW b \in Int, Slots(b), UNCHANGED <<buf, mask, deque>>
  PROVE  Slots(b)'
BY DEF Slots, Size

-----------------------------------------------------------------------------
(* The worker enqueues.                                                    *)

LEMMA BeginEnqueueStep ==
  ASSUME IInv, NEW o \in Ops, BeginEnqueue(o)
  PROVE  IInv'
<1>1. PICK b \in Int : Cursors(b) /\ Slots(b)
  BY DEF IInv
<1> DEFINE l == IF Difference(head, tail) < mask THEN "write" ELSE "grow"
<1>2. /\ pc[Worker] = "idle" /\ l \in WorkerPc /\ l \in {"write", "grow"} /\ Goto(Worker, l)
      /\ operation' = o
      /\ UNCHANGED <<buf, mask, head, tail, lock, seen, deque>>
  BY DEF BeginEnqueue, WorkerPc
<1>3. /\ pc' \in [Threads -> WorkerPc \cup ThiefPc]
      /\ pc'[Worker] = l /\ \A t \in Thieves : pc'[t] = pc[t]
      /\ (Claimed' <=> Claimed) /\ Held'
  BY <1>2, WorkerGoes DEF IInv
<1>4. ~Has(deque, o)
  BY HasIsInSet DEF BeginEnqueue, IInv, Types
<1>5. ASSUME l = "write" PROVE Len(deque) < Size
  <2>1. Difference(head, tail) < mask
    BY <1>5
  <2>2. /\ Difference(head, tail) = High(b) - Low(b) /\ Len(deque) \in Nat
        /\ High(b) = b + Len(deque) /\ Low(b) \in {b, b + 1}
    BY <1>1, <1>2, Apart DEF IInv, High, Low, Lowered
  <2> QED
    BY <2>1, <2>2 DEF IInv, Types, Size
<1> HIDE DEF l
<1>6. Types'
  BY <1>2, <1>3, SameTypes DEF IInv, Types
<1>7. Items'
  BY <1>2, <1>3, <1>4, <1>5 DEF IInv, Items, Has, Once, Size
<1>8. Cursors(b)'
  BY <1>1, <1>2, <1>3 DEF Cursors, High, Low, Lowered
<1>9. Slots(b)'
  BY <1>1, <1>2, SameSlots
<1> QED
  BY <1>3, <1>6, <1>7, <1>8, <1>9 DEF IInv

\* What the two ways to add an item have in common.
LEMMA EnqueuedStep ==
  ASSUME IInv, pc[Worker] \in {"write", "grow"}, Enqueued, UNCHANGED <<tail, lock, seen>>,
         NEW b \in Int, Cursors(b)
  PROVE  /\ Held' /\ operation' \in Ops \cup {NoOp} /\ deque' \in Seq(Ops)
         /\ pc' \in [Threads -> WorkerPc \cup ThiefPc]
         /\ pc'[Worker] = "idle" /\ \A t \in Thieves : pc'[t] = pc[t]
         /\ operation \in Ops /\ Len(deque) \in Nat /\ Len(deque') = Len(deque) + 1
         /\ deque'[Len(deque) + 1] = operation /\ \A n \in 1..Len(deque) : deque'[n] = deque[n]
         /\ Once(deque')
         /\ head = (b + Len(deque)) % M
         /\ Cursors(b)'
<1>1. /\ Goto(Worker, "idle") /\ "idle" \in WorkerPc /\ head' = Add(head, 1)
      /\ deque' = Append(deque, operation) /\ operation' = NoOp
  BY DEF Enqueued, WorkerPc
<1>2. /\ pc' \in [Threads -> WorkerPc \cup ThiefPc]
      /\ pc'[Worker] = "idle" /\ \A t \in Thieves : pc'[t] = pc[t]
      /\ (Claimed' <=> Claimed) /\ Held'
  BY <1>1, WorkerGoes DEF IInv
<1>3. operation \in Ops /\ ~Has(deque, operation) /\ Once(deque) /\ deque \in Seq(Ops)
  BY DEF IInv, Types, Items
<1>4. /\ deque' \in Seq(Ops) /\ Len(deque) \in Nat /\ Len(deque') = Len(deque) + 1
      /\ deque'[Len(deque) + 1] = operation /\ \A n \in 1..Len(deque) : deque'[n] = deque[n]
  BY <1>1, <1>3, AppendProperties
<1>5. Once(deque')
  BY <1>1, <1>3, AppendHas
<1>6. head = (b + Len(deque)) % M
  BY DEF Cursors, High, Lowered
<1>7. head' = (b + Len(deque')) % M
  <2>1. b + Len(deque) \in Int /\ (b + Len(deque)) + 1 = b + (Len(deque) + 1)
    BY <1>4
  <2> QED
    BY <1>1, <1>4, <1>6, <2>1, Moved
<1>8. Cursors(b)'
  BY <1>2, <1>7 DEF Cursors, High, Low, Lowered
<1> QED
  BY <1>1, <1>2, <1>3, <1>4, <1>5, <1>6, <1>8

LEMMA WriteSlotStep ==
  ASSUME IInv, WriteSlot
  PROVE  IInv'
<1>1. PICK b \in Int : Cursors(b) /\ Slots(b)
  BY DEF IInv
<1>2. /\ pc[Worker] = "write" /\ buf' = [buf EXCEPT ![Slot(head)] = operation]
      /\ Enqueued /\ mask' = mask /\ UNCHANGED <<tail, lock, seen>>
  BY DEF WriteSlot
<1>3. /\ Held' /\ operation' \in Ops \cup {NoOp} /\ deque' \in Seq(Ops)
      /\ pc' \in [Threads -> WorkerPc \cup ThiefPc]
      /\ pc'[Worker] = "idle" /\ \A t \in Thieves : pc'[t] = pc[t]
      /\ operation \in Ops /\ Len(deque) \in Nat /\ Len(deque') = Len(deque) + 1
      /\ deque'[Len(deque) + 1] = operation /\ \A n \in 1..Len(deque) : deque'[n] = deque[n]
      /\ Once(deque')
      /\ head = (b + Len(deque)) % M
      /\ Cursors(b)'
  BY <1>1, <1>2, EnqueuedStep
<1>4. Len(deque) < Size /\ Size \in Nat \ {0}
  BY <1>2, Sizes DEF IInv, Items
<1>5. Slot(head) = (b + Len(deque)) % Size /\ Slot(head) \in 0..mask
  <2>1. b + Len(deque) \in Int
    BY <1>3
  <2>2. (b + Len(deque)) % Size \in 0..(Size - 1)
    BY <1>4, <2>1, DivMod
  <2>3. Slot(head) = (b + Len(deque)) % Size
    BY <1>3, <2>1, SlotOf DEF IInv
  <2>4. Size - 1 = mask
    BY DEF IInv, Types, Size
  <2> QED
    BY <2>2, <2>3, <2>4
<1>6. Types'
  BY <1>2, <1>3, <1>5 DEF IInv, Types, Size, WorkerPc
<1>7. Items'
  BY <1>2, <1>3, <1>4 DEF IInv, Items, Size
<1>8. Slots(b)'
  <2> SUFFICES ASSUME NEW n \in 1..(Len(deque) + 1)
               PROVE  buf'[(b + n - 1) % Size] = deque'[n]
    BY <1>2, <1>3 DEF Slots, Size
  <2>1. CASE n = Len(deque) + 1
    <3>1. b + n - 1 = b + Len(deque)
      BY <1>3, <2>1
    <3> QED
      BY <1>2, <1>3, <1>5, <2>1, <3>1 DEF IInv, Types
  <2>2. CASE n # Len(deque) + 1
    <3>1. n \in 1..Len(deque) /\ b + n - 1 \in Int /\ b + Len(deque) \in Int
          /\ b + n - 1 # b + Len(deque)
          /\ (b + n - 1) - (b + Len(deque)) < Size /\ (b + Len(deque)) - (b + n - 1) < Size
      BY <1>3, <1>4, <2>2
    <3>2. (b + n - 1) % Size # Slot(head) /\ (b + n - 1) % Size \in 0..(Size - 1)
      BY <1>4, <1>5, <3>1, OtherSlots, DivMod
    <3>3. buf'[(b + n - 1) % Size] = buf[(b + n - 1) % Size]
      BY <1>2, <3>2 DEF IInv, Types, Size
    <3> QED
      BY <1>1, <1>3, <3>1, <3>3 DEF Slots
  <2> QED
    BY <2>1, <2>2
<1> QED
  BY <1>3, <1>6, <1>7, <1>8 DEF IInv

LEMMA GrowStep ==
  ASSUME IInv, Grow
  PROVE  IInv'
<1>1. PICK b \in Int : Cursors(b) /\ Slots(b)
  BY DEF IInv
<1> DEFINE Kept(i) == {n \in 0..(Difference(head, tail) - 1) : Add(tail, n) % NewSize = i}
<1>2. /\ pc[Worker] = "grow" /\ NewSize <= MemoryLimit /\ lock = Nobody
      /\ buf' = [i \in 0..(NewSize - 1) |->
                    IF i = head % NewSize THEN operation
                    ELSE IF Kept(i) = {} THEN NoOp
                    ELSE buf[Slot(Add(tail, CHOOSE n \in Kept(i) : TRUE))]]
      /\ mask' = NewSize - 1 /\ Enqueued /\ UNCHANGED <<tail, lock, seen>>
  BY DEF Grow, MayGrow
<1>3. /\ Held' /\ operation' \in Ops \cup {NoOp} /\ deque' \in Seq(Ops)
      /\ pc' \in [Threads -> WorkerPc \cup ThiefPc]
      /\ pc'[Worker] = "idle" /\ \A t \in Thieves : pc'[t] = pc[t]
      /\ operation \in Ops /\ Len(deque) \in Nat /\ Len(deque') = Len(deque) + 1
      /\ deque'[Len(deque) + 1] = operation /\ \A n \in 1..Len(deque) : deque'[n] = deque[n]
      /\ Once(deque')
      /\ head = (b + Len(deque)) % M
      /\ Cursors(b)'
  BY <1>1, <1>2, EnqueuedStep
<1>4. /\ Len(deque) <= Size /\ Size \in Nat /\ Size >= 2 /\ NewSize = 2 * Size
      /\ NewSize \in Nat \ {0} /\ Len(deque) < NewSize
  BY <1>3, Sizes DEF IInv, Items, NewSize, Size
<1>5. /\ \E k \in 1..W : NewSize = 2^k
      /\ \E f \in Nat \ {0} : M = NewSize * f
  <2>1. PICK k \in 1..W : Size = 2^k
    BY DEF IInv, Types
  <2>2. k # W
    BY <2>1, Sizes, Powers DEF IInv, M
  <2>3. k \in 0..W /\ k + 1 \in 1..W
    BY <2>1, <2>2, SizeAssumption
  <2>4. NewSize = 2^(k + 1)
    BY <1>4, <2>1, <2>3, PowerAssumption
  <2> QED
    BY <2>3, <2>4, Powers
<1>6. tail = b % M /\ Difference(head, tail) = Len(deque)
  <2>1. ~Claimed /\ ~Lowered
    BY <1>2, NoHolder DEF IInv, Claimed, Lowered
  <2>2. Low(b) = b /\ High(b) = b + Len(deque)
    BY <2>1 DEF Low, High
  <2> QED
    BY <1>1, <1>3, <2>2, Apart DEF IInv, Cursors
<1>7. ASSUME NEW n \in 0..(Len(deque) - 1)
      PROVE  /\ b + n \in Int
             /\ Add(tail, n) % NewSize = (b + n) % NewSize
             /\ Slot(Add(tail, n)) = (b + n) % Size
             /\ buf[Slot(Add(tail, n))] = deque[n + 1] /\ deque[n + 1] \in Ops
  <2>1. Add(tail, n) = (b + n) % M /\ b + n \in Int
    BY <1>6, <1>3, Moved
  <2>2. ((b + n) % M) % NewSize = (b + n) % NewSize
    BY ZenonT(60), <1>4, <1>5, <2>1, ReducedTwice
  <2>3. Slot(Add(tail, n)) = (b + n) % Size
    BY <2>1, SlotOf DEF IInv
  <2>4. n + 1 \in 1..Len(deque) /\ b + (n + 1) - 1 = b + n
    BY <1>3
  <2> QED
    BY <1>1, <2>1, <2>2, <2>3, <2>4 DEF Slots, IInv, Types
<1>8. ASSUME NEW i \in 0..(NewSize - 1), Kept(i) # {}
      PROVE  \E n \in 0..(Len(deque) - 1) :
                /\ i = (b + n) % NewSize
                /\ buf[Slot(Add(tail, CHOOSE m \in Kept(i) : TRUE))] = deque[n + 1]
  <2>1. PICK n : n \in Kept(i) /\ n = CHOOSE m \in Kept(i) : TRUE
    BY <1>8
  <2> QED
    BY <1>6, <1>7, <2>1
<1>9. Types'
  <2>1. buf' \in [0..mask' -> Ops \cup {NoOp}]
    <3>1. ASSUME NEW i \in 0..(NewSize - 1)
          PROVE  IF i = head % NewSize THEN TRUE
                 ELSE Kept(i) # {} => buf[Slot(Add(tail, CHOOSE n \in Kept(i) : TRUE))] \in Ops
      <4>1. CASE Kept(i) # {}
        <5>1. PICK n \in 0..(Len(deque) - 1) :
                buf[Slot(Add(tail, CHOOSE m \in Kept(i) : TRUE))] = deque[n + 1]
          BY ZenonT(60), <4>1, <1>8
        <5>2. deque[n + 1] \in Ops
          BY ZenonT(60), <1>7
        <5> QED
          BY ZenonT(60), <5>1, <5>2
      <4> QED
        BY ZenonT(60), <4>1
    <3>2. operation \in Ops /\ NewSize - 1 = mask' /\ 0..mask' = 0..(NewSize - 1)
      BY <1>2, <1>3
    <3> HIDE DEF Kept
    <3> QED
      BY SMTT(30), <1>2, <3>1, <3>2
  <2>2. mask' \in Nat /\ mask' + 1 = NewSize
    BY <1>2, <1>4
  <2> QED
    BY <1>2, <1>3, <1>5, <2>1, <2>2 DEF IInv, Types, Size, WorkerPc
<1>10. Items'
  BY <1>2, <1>3, <1>4 DEF IInv, Items, Size
<1>11. head % NewSize = (b + Len(deque)) % NewSize
  <2>1. b + Len(deque) \in Int
    BY <1>3
  <2>2. ((b + Len(deque)) % M) % NewSize = (b + Len(deque)) % NewSize
    BY ZenonT(60), <1>4, <1>5, <2>1, ReducedTwice
  <2> QED
    BY <1>3, <2>2
<1>12. ASSUME NEW n \in 0..Len(deque)
       PROVE  buf'[(b + n) % NewSize] = deque'[n + 1]
  <2> DEFINE i == (b + n) % NewSize
  <2>1. b + n \in Int /\ i \in 0..(NewSize - 1)
    <3>1. b + n \in Int
      BY <1>3
    <3> QED
      BY <1>4, <3>1, DivMod
  <2> HIDE DEF i
  <2>2. CASE n = Len(deque)
    <3>1. i = head % NewSize
      BY <1>11, <2>2 DEF i
    <3> QED
      BY <1>2, <1>3, <2>1, <2>2, <3>1 DEF i
  <2>3. CASE n # Len(deque)
    <3>1. n \in 0..(Len(deque) - 1) /\ b + Len(deque) \in Int /\ b + n # b + Len(deque)
          /\ (b + n) - (b + Len(deque)) < NewSize /\ (b + Len(deque)) - (b + n) < NewSize
      BY <1>3, <1>4, <2>3
    <3>2. i # head % NewSize
      <4>1. (b + n) % NewSize # (b + Len(deque)) % NewSize
        BY <1>4, <2>1, <3>1, OtherSlots
      <4> QED
        BY <1>11, <4>1 DEF i
    <3>3. n \in Kept(i)
      BY <1>6, <1>7, <3>1 DEF i
    <3>4. PICK m \in 0..(Len(deque) - 1) :
             i = (b + m) % NewSize
             /\ buf[Slot(Add(tail, CHOOSE k \in Kept(i) : TRUE))] = deque[m + 1]
      BY <1>8, <2>1, <3>3
    <3>5. m = n
      <4>1. b + m \in Int /\ (b + m) - (b + n) < NewSize /\ (b + n) - (b + m) < NewSize
        BY <1>3, <1>4, <3>1
      <4>2. b + m = b + n
        BY <1>4, <2>1, <3>4, <4>1, OtherSlots DEF i
      <4> QED
        BY <1>3, <3>1, <4>2
    <3>6. n + 1 \in 1..Len(deque)
      BY <1>3, <3>1
    <3>7. buf'[i] = deque[n + 1]
      BY <1>2, <2>1, <3>2, <3>3, <3>4, <3>5
    <3> QED
      BY <1>3, <3>6, <3>7 DEF i
  <2> QED
    BY <2>2, <2>3
<1>13. Slots(b)'
  <2>1. Size' = NewSize
    BY <1>2, <1>4 DEF Size
  <2>2. ASSUME NEW n \in 1..(Len(deque) + 1)
        PROVE  buf'[(b + n - 1) % NewSize] = deque'[n]
    <3>1. n - 1 \in 0..Len(deque) /\ (n - 1) + 1 = n /\ b + (n - 1) = b + n - 1
      BY <1>3
    <3> QED
      BY <1>12, <3>1
  <2> QED
    BY <1>3, <2>1, <2>2 DEF Slots
<1> QED
  BY <1>3, <1>9, <1>10, <1>13 DEF IInv

LEMMA EnqueueFailsStep ==
  ASSUME IInv, EnqueueFails
  PROVE  IInv'
<1>1. PICK b \in Int : Cursors(b) /\ Slots(b)
  BY DEF IInv
<1>2. /\ pc[Worker] = "grow" /\ Goto(Worker, "idle") /\ "idle" \in WorkerPc /\ operation' = NoOp
      /\ UNCHANGED <<buf, mask, head, tail, lock, seen, deque>>
  BY DEF EnqueueFails, WorkerPc
<1>3. /\ pc' \in [Threads -> WorkerPc \cup ThiefPc]
      /\ pc'[Worker] = "idle" /\ \A t \in Thieves : pc'[t] = pc[t]
      /\ (Claimed' <=> Claimed) /\ Held'
  BY <1>2, WorkerGoes DEF IInv
<1>4. Types'
  BY <1>2, <1>3, SameTypes DEF IInv, Types
<1>5. Items'
  BY <1>2, <1>3 DEF IInv, Items, Size
<1>6. Cursors(b)' /\ Slots(b)'
  BY <1>1, <1>2, <1>3, SameSlots DEF Cursors, High, Low, Lowered
<1> QED
  BY <1>3, <1>4, <1>5, <1>6 DEF IInv

-----------------------------------------------------------------------------
(* The worker pops.                                                        *)

LEMMA BeginPopStep ==
  ASSUME IInv, BeginPop
  PROVE  IInv'
<1>1. PICK b \in Int : Cursors(b) /\ Slots(b)
  BY DEF IInv
<1>2. /\ pc[Worker] = "idle" /\ Goto(Worker, "claim") /\ "claim" \in WorkerPc
      /\ seen' = [seen EXCEPT ![Worker] = head]
      /\ UNCHANGED <<buf, mask, head, tail, lock, operation, deque>>
  BY DEF BeginPop, WorkerPc
<1>3. /\ pc' \in [Threads -> WorkerPc \cup ThiefPc]
      /\ pc'[Worker] = "claim" /\ \A t \in Thieves : pc'[t] = pc[t]
      /\ (Claimed' <=> Claimed) /\ Held'
  BY <1>2, WorkerGoes DEF IInv
<1>4. head = (b + Len(deque)) % M /\ head \in Int
  <2>1. head = (b + Len(deque)) % M /\ b + Len(deque) \in Int
    BY <1>1, <1>2 DEF Cursors, High, Lowered, IInv, Types
  <2> QED
    BY <2>1, Powers, DivMod
<1>5. seen' \in [Threads -> Int] /\ seen'[Worker] = head /\ \A t \in Thieves : seen'[t] = seen[t]
  BY <1>2, <1>4, ThreadAssumption DEF IInv, Types, Threads
<1>6. Types'
  BY <1>2, <1>3, <1>5, SameTypes DEF IInv, Types
<1>7. Items'
  BY <1>2, <1>3 DEF IInv, Items, Size
<1>8. Cursors(b)' /\ Slots(b)'
  BY <1>1, <1>2, <1>3, <1>4, <1>5, SameSlots DEF Cursors, High, Low, Lowered
<1> QED
  BY <1>3, <1>6, <1>7, <1>8 DEF IInv

LEMMA ClaimHeadStep ==
  ASSUME IInv, ClaimHead
  PROVE  IInv'
<1>1. PICK b \in Int : Cursors(b) /\ Slots(b)
  BY DEF IInv
<1>2. /\ pc[Worker] = "claim" /\ Goto(Worker, "look") /\ "look" \in WorkerPc
      /\ head' = Add(seen[Worker], -1)
      /\ UNCHANGED <<buf, mask, tail, lock, operation, seen, deque>>
  BY DEF ClaimHead, WorkerPc
<1>3. /\ pc' \in [Threads -> WorkerPc \cup ThiefPc]
      /\ pc'[Worker] = "look" /\ \A t \in Thieves : pc'[t] = pc[t]
      /\ (Claimed' <=> Claimed) /\ Held'
  BY <1>2, WorkerGoes DEF IInv
<1>4. head' = (b + Len(deque) - 1) % M
  <2>1. b + Len(deque) \in Int /\ (b + Len(deque)) + (-1) = b + Len(deque) - 1
    BY DEF IInv, Types
  <2>2. seen[Worker] = (b + Len(deque)) % M
    BY <1>1, <1>2 DEF Cursors
  <2> QED
    BY <1>2, <2>1, <2>2, Moved
<1>5. Types'
  BY <1>2, <1>3, SameTypes DEF IInv, Types
<1>6. Items'
  BY <1>2, <1>3 DEF IInv, Items, Size
<1>7. Cursors(b)' /\ Slots(b)'
  BY <1>1, <1>2, <1>3, <1>4, SameSlots DEF Cursors, High, Low, Lowered
<1> QED
  BY <1>3, <1>5, <1>6, <1>7 DEF IInv

\* The one who looks second sees what the other one claimed.
LEMMA LookAtTailStep ==
  ASSUME IInv, LookAtTail
  PROVE  IInv'
<1>1. PICK b \in Int : Cursors(b) /\ Slots(b)
  BY DEF IInv
<1> DEFINE l == IF Difference(head, tail) < 0 THEN "settle" ELSE "pop"
<1>2. /\ pc[Worker] = "look" /\ Goto(Worker, l) /\ l \in WorkerPc /\ l \in {"settle", "pop"}
      /\ UNCHANGED <<buf, mask, head, tail, lock, operation, seen, deque>>
  BY DEF LookAtTail, WorkerPc
<1>3. /\ pc' \in [Threads -> WorkerPc \cup ThiefPc]
      /\ pc'[Worker] = l /\ \A t \in Thieves : pc'[t] = pc[t]
      /\ (Claimed' <=> Claimed) /\ Held'
  BY <1>2, WorkerGoes DEF IInv
<1>4. ASSUME l = "pop"
      PROVE  Len(deque) > 0 /\ \A t \in Thieves : pc[t] = "steal" => Len(deque) > 1
  <2>1. /\ Difference(head, tail) >= 0 /\ Difference(head, tail) = High(b) - Low(b)
        /\ Len(deque) \in Nat
        /\ High(b) = b + Len(deque) - 1 /\ Low(b) = IF Claimed THEN b + 1 ELSE b
    BY <1>1, <1>2, <1>4, Apart DEF IInv, High, Low, Lowered
  <2>2. Len(deque) > 0 /\ (Claimed => Len(deque) > 1)
    BY <2>1
  <2> QED
    BY <2>2 DEF Claimed
<1> HIDE DEF l
<1>5. Types'
  BY <1>2, <1>3, SameTypes DEF IInv, Types
<1>6. Items'
  BY <1>2, <1>3, <1>4 DEF IInv, Items, Size
<1>7. Cursors(b)' /\ Slots(b)'
  BY <1>1, <1>2, <1>3, SameSlots DEF Cursors, High, Low, Lowered
<1> QED
  BY <1>3, <1>5, <1>6, <1>7 DEF IInv

LEMMA SettleStep ==
  ASSUME IInv, Settle
  PROVE  IInv'
<1>1. PICK b \in Int : Cursors(b) /\ Slots(b)
  BY DEF IInv
<1>2. /\ pc[Worker] = "settle" /\ lock = Nobody
      /\ UNCHANGED <<buf, mask, tail, lock, operation, seen, deque>>
  BY DEF Settle
<1>3. ~Claimed /\ Low(b) = b /\ High(b) = b + Len(deque) - 1 /\ Len(deque) \in Nat
      /\ Difference(head, tail) = Len(deque) - 1
  <2>1. ~Claimed /\ Lowered
    BY <1>2, NoHolder DEF IInv, Claimed, Lowered
  <2>2. Low(b) = b /\ High(b) = b + Len(deque) - 1
    BY <2>1 DEF High, Low
  <2> QED
    BY <1>1, <2>1, <2>2, Apart DEF IInv
<1>4. CASE Difference(head, tail) < 0
  <2>1. head' = seen[Worker] /\ Goto(Worker, "idle") /\ "idle" \in WorkerPc
    BY <1>4 DEF Settle, WorkerPc
  <2>2. /\ pc' \in [Threads -> WorkerPc \cup ThiefPc]
        /\ pc'[Worker] = "idle" /\ \A t \in Thieves : pc'[t] = pc[t]
        /\ (Claimed' <=> Claimed) /\ Held'
    BY <1>2, <2>1, WorkerGoes DEF IInv
  <2>3. Types'
    BY <1>2, <2>1, <2>2, SameTypes DEF IInv, Types
  <2>4. Items'
    BY <1>2, <2>2 DEF IInv, Items, Size
  <2>5. Cursors(b)' /\ Slots(b)'
    BY <1>1, <1>2, <2>1, <2>2, SameSlots DEF Cursors, High, Low, Lowered
  <2> QED
    BY <2>2, <2>3, <2>4, <2>5 DEF IInv
<1>5. CASE ~(Difference(head, tail) < 0)
  <2>1. head' = head /\ Goto(Worker, "pop") /\ "pop" \in WorkerPc
    BY <1>5 DEF Settle, WorkerPc
  <2>2. /\ pc' \in [Threads -> WorkerPc \cup ThiefPc]
        /\ pc'[Worker] = "pop" /\ \A t \in Thieves : pc'[t] = pc[t]
        /\ (Claimed' <=> Claimed) /\ Held'
    BY <1>2, <2>1, WorkerGoes DEF IInv
  <2>3. Len(deque) > 0 /\ \A t \in Thieves : pc[t] # "steal"
    BY <1>3, <1>5 DEF Claimed
  <2>4. Types'
    BY <1>2, <2>1, <2>2, SameTypes DEF IInv, Types
  <2>5. Items'
    BY <1>2, <2>2, <2>3 DEF IInv, Items, Size
  <2>6. Cursors(b)' /\ Slots(b)'
    BY <1>1, <1>2, <2>1, <2>2, SameSlots DEF Cursors, High, Low, Lowered
  <2> QED
    BY <2>2, <2>4, <2>5, <2>6 DEF IInv
<1> QED
  BY <1>4, <1>5

\* A list that holds nothing twice, without the item at one end.
LEMMA TakenAt ==
  ASSUME NEW D, NEW s \in Seq(D), Once(s), NEW k \in 1..Len(s)
  PROVE  RemoveFirst(s, s[k]) = SubSeq(s, 1, k - 1) \o SubSeq(s, k + 1, Len(s))
<1> DEFINE I == {i \in 1..Len(s) : s[i] = s[k]}
<1>1. I = {k}
  BY DEF Once
<1>2. Min(I) = k
  BY <1>1 DEF Min
<1>3. SelectInSeq(s, LAMBDA v : v = s[k]) = k
  BY <1>1, <1>2 DEF SelectInSeq
<1> QED
  BY <1>3 DEF RemoveFirst, RemoveAt

LEMMA TakenAtTheEnd ==
  ASSUME NEW D, NEW s \in Seq(D), Once(s), s # <<>>
  PROVE  /\ RemoveFirst(s, s[Len(s)]) = Front(s) /\ Front(s) \in Seq(D)
         /\ Len(Front(s)) = Len(s) - 1 /\ \A n \in 1..(Len(s) - 1) : Front(s)[n] = s[n]
<1>1. Len(s) \in Nat /\ Len(s) > 0
  BY EmptySeq
<1>2. Len(s) \in 1..Len(s) /\ \A i \in 1..(Len(s) - 1) : s[i] \in D
  BY <1>1
<1>3. /\ Front(s) \in Seq(D) /\ Len(Front(s)) = Len(s) - 1
      /\ \A i \in 1..(Len(s) - 1) : Front(s)[i] = s[i]
  <2>1. PICK m \in Nat : m = Len(s) - 1
    BY <1>1
  <2>2. m <= Len(s)
    BY <1>1, <2>1
  <2>3. SubSeq(s, 1, m) \in Seq(D) /\ Len(SubSeq(s, 1, m)) = m
    BY <2>2
  <2>4. \A i \in 1..m : SubSeq(s, 1, m)[i] = s[i]
    BY <2>2
  <2> QED
    BY <2>1, <2>3, <2>4 DEF Front
<1>4. SubSeq(s, Len(s) + 1, Len(s)) = <<>>
  BY <1>1
<1>5. RemoveFirst(s, s[Len(s)]) = SubSeq(s, 1, Len(s) - 1) \o SubSeq(s, Len(s) + 1, Len(s))
  BY <1>2, TakenAt
<1> QED
  BY <1>3, <1>4, <1>5 DEF Front

LEMMA TakenAtTheFront ==
  ASSUME NEW D, NEW s \in Seq(D), Once(s), s # <<>>
  PROVE  /\ RemoveFirst(s, s[1]) = Tail(s) /\ Tail(s) \in Seq(D)
         /\ Len(Tail(s)) = Len(s) - 1 /\ \A n \in 1..(Len(s) - 1) : Tail(s)[n] = s[n + 1]
<1>1. Len(s) \in Nat /\ Len(s) > 0 /\ 1 \in 1..Len(s)
  BY EmptySeq
<1>2. RemoveFirst(s, s[1]) = SubSeq(s, 1, 1 - 1) \o SubSeq(s, 1 + 1, Len(s))
  BY <1>1, TakenAt
<1>3. SubSeq(s, 1, 1 - 1) = <<>> /\ SubSeq(s, 1 + 1, Len(s)) = Tail(s)
  BY <1>1
<1>4. /\ Tail(s) \in Seq(D) /\ Len(Tail(s)) = Len(s) - 1
      /\ \A n \in 1..(Len(s) - 1) : Tail(s)[n] = s[n + 1]
  BY <1>1, HeadTailProperties
<1> QED
  BY <1>2, <1>3, <1>4

\* What Pop reads, and what is left.
LEMMA PopTakes ==
  ASSUME IInv, Pop, NEW b \in Int, Cursors(b), Slots(b)
  PROVE  /\ deque # <<>> /\ deque' = Front(deque) /\ deque' \in Seq(Ops) /\ Len(deque) \in Nat
         /\ Len(deque') = Len(deque) - 1 /\ \A n \in 1..Len(deque') : deque'[n] = deque[n]
<1>1. pc[Worker] = "pop" /\ deque' = RemoveFirst(deque, buf[Slot(head)])
  BY DEF Pop
<1>2. /\ deque \in Seq(Ops) /\ Once(deque) /\ Len(deque) \in Nat /\ Len(deque) > 0 /\ deque # <<>>
      /\ Len(deque) \in 1..Len(deque)
  BY <1>1 DEF IInv, Types, Items
<1>3. head = (b + Len(deque) - 1) % M /\ b + Len(deque) - 1 \in Int
  BY <1>1, <1>2 DEF Cursors, High, Lowered
<1>4. Slot(head) = (b + Len(deque) - 1) % Size
  BY <1>3, SlotOf DEF IInv
<1>5. buf[Slot(head)] = deque[Len(deque)]
  BY <1>2, <1>4 DEF Slots
<1> QED
  BY <1>1, <1>2, <1>5, TakenAtTheEnd

LEMMA PopStep ==
  ASSUME IInv, Pop
  PROVE  IInv'
<1>1. PICK b \in Int : Cursors(b) /\ Slots(b)
  BY DEF IInv
<1>2. /\ pc[Worker] = "pop" /\ Goto(Worker, "idle") /\ "idle" \in WorkerPc
      /\ UNCHANGED <<buf, mask, head, tail, lock, operation, seen>>
  BY DEF Pop, WorkerPc
<1>3. /\ pc' \in [Threads -> WorkerPc \cup ThiefPc]
      /\ pc'[Worker] = "idle" /\ \A t \in Thieves : pc'[t] = pc[t]
      /\ (Claimed' <=> Claimed) /\ Held'
  BY <1>2, WorkerGoes DEF IInv
<1>4. /\ deque # <<>> /\ deque' = Front(deque) /\ deque' \in Seq(Ops) /\ Len(deque) \in Nat
      /\ Len(deque') = Len(deque) - 1 /\ \A n \in 1..Len(deque') : deque'[n] = deque[n]
  BY <1>1, PopTakes
<1>5. Types'
  BY <1>2, <1>3, <1>4, SameTypes DEF IInv, Types
<1>6. Items'
  <2>1. Once(deque')
    BY <1>4, FrontHas DEF IInv, Types, Items
  <2>2. Len(deque') <= Size' /\ \A t \in Thieves : pc'[t] = "steal" => Len(deque') > 0
    BY <1>2, <1>3, <1>4, Sizes DEF IInv, Items, Size
  <2> QED
    BY <1>3, <2>1, <2>2 DEF Items
<1>7. Cursors(b)'
  <2>1. High(b) = b + Len(deque) - 1 /\ High(b)' = b + Len(deque') /\ Low(b)' = Low(b)
    BY <1>2, <1>3 DEF High, Low, Lowered
  <2>2. High(b)' = High(b)
    BY <1>4, <2>1
  <2> QED
    BY <1>1, <1>2, <1>3, <2>1, <2>2 DEF Cursors
<1>8. Slots(b)'
  <2>1. \A n \in 1..Len(deque') : n \in 1..Len(deque)
    BY <1>4
  <2> QED
    BY <1>1, <1>2, <1>4, <2>1 DEF Slots, Size
<1> QED
  BY <1>3, <1>5, <1>6, <1>7, <1>8 DEF IInv

-----------------------------------------------------------------------------
(* A thief.                                                                *)

\* The steps of a thief that change nothing but its place and the cursors.
LEMMA ThiefKeeps ==
  ASSUME IInv, NEW t \in Thieves, NEW l \in ThiefPc \ {"steal"}, Goto(t, l),
         UNCHANGED <<buf, mask, operation, deque>>, seen' \in [Threads -> Int],
         IF l = "idle" THEN lock' = Nobody ELSE lock' = t,
         lock \in {Nobody, t}
  PROVE  /\ Types' /\ Held' /\ Items' /\ \A b \in Int : Slots(b) => Slots(b)'
         /\ \A u \in Thieves \ {t} : pc[u] = "idle" /\ pc'[u] = "idle"
<1>1. /\ pc' \in [Threads -> WorkerPc \cup ThiefPc]
      /\ pc'[Worker] = pc[Worker] /\ pc'[t] = l
      /\ \A u \in Thieves \ {t} : pc'[u] = pc[u]
      /\ \A u \in Thieves : pc'[u] \in ThiefPc
  BY ThiefGoes DEF IInv
<1>2. \A u \in Thieves \ {t} : pc[u] = "idle"
  BY ThreadAssumption DEF IInv, Held, Nobody
<1>3. Types'
  BY <1>1, SameTypes DEF IInv, Types
<1>4. Held'
  BY <1>1, <1>2, ThreadAssumption DEF Held, Nobody
<1>5. Items'
  BY <1>1, <1>2 DEF IInv, Items, Size
<1> QED
  BY <1>1, <1>2, <1>3, <1>4, <1>5, SameSlots

LEMMA LockForStealStep ==
  ASSUME IInv, NEW t \in Thieves, LockForSteal(t)
  PROVE  IInv'
<1>1. PICK b \in Int : Cursors(b) /\ Slots(b)
  BY DEF IInv
<1>2. /\ pc[t] = "idle" /\ lock = Nobody /\ lock' = t /\ Goto(t, "look")
      /\ "look" \in ThiefPc \ {"steal"} /\ "look" # "idle"
      /\ UNCHANGED <<buf, mask, head, tail, operation, seen, deque>>
  BY DEF LockForSteal, ThiefPc
<1>3. Types' /\ Held' /\ Items' /\ Slots(b)'
      /\ \A u \in Thieves \ {t} : pc[u] = "idle" /\ pc'[u] = "idle"
  BY <1>1, <1>2, ThiefKeeps DEF IInv, Types
<1>4. pc'[Worker] = pc[Worker] /\ pc'[t] = "look" /\ (Lowered' <=> Lowered)
  BY <1>2, ThiefGoes DEF IInv
<1>5. Cursors(b)'
  BY <1>1, <1>2, <1>3, <1>4 DEF Cursors, High, Low, Claimed
<1> QED
  BY <1>3, <1>5 DEF IInv

LEMMA NothingToStealStep ==
  ASSUME IInv, NEW t \in Thieves, NothingToSteal(t)
  PROVE  IInv'
<1>1. PICK b \in Int : Cursors(b) /\ Slots(b)
  BY DEF IInv
<1>2. /\ pc[t] = "look" /\ lock' = Nobody /\ Goto(t, "idle") /\ "idle" \in ThiefPc \ {"steal"}
      /\ UNCHANGED <<buf, mask, head, tail, operation, seen, deque>>
  BY DEF NothingToSteal, ThiefPc
<1>3. lock = t
  BY <1>2, OnlyHolder DEF IInv
<1>4. Types' /\ Held' /\ Items' /\ Slots(b)'
      /\ \A u \in Thieves \ {t} : pc[u] = "idle" /\ pc'[u] = "idle"
  BY <1>1, <1>2, <1>3, ThiefKeeps DEF IInv, Types
<1>5. pc'[Worker] = pc[Worker] /\ pc'[t] = "idle" /\ (Lowered' <=> Lowered)
  BY <1>2, ThiefGoes DEF IInv
<1>6. Cursors(b)'
  BY <1>1, <1>2, <1>4, <1>5 DEF Cursors, High, Low, Claimed
<1> QED
  BY <1>4, <1>6 DEF IInv

LEMMA SeeItemStep ==
  ASSUME IInv, NEW t \in Thieves, SeeItem(t)
  PROVE  IInv'
<1>1. PICK b \in Int : Cursors(b) /\ Slots(b)
  BY DEF IInv
<1>2. /\ pc[t] = "look" /\ lock' = lock /\ Goto(t, "claim")
      /\ "claim" \in ThiefPc \ {"steal"} /\ "claim" # "idle"
      /\ seen' = [seen EXCEPT ![t] = tail]
      /\ UNCHANGED <<buf, mask, head, tail, operation, deque>>
  BY DEF SeeItem, ThiefPc
<1>3. lock = t /\ \A u \in Thieves \ {t} : pc[u] = "idle"
  BY <1>2, OnlyHolder DEF IInv
<1>4. ~Claimed /\ tail = b % M /\ tail \in Int
  <2>1. ~Claimed
    BY <1>2, <1>3 DEF Claimed
  <2>2. tail = b % M
    BY <1>1, <2>1 DEF Cursors, Low
  <2> QED
    BY <2>1, <2>2, Powers, DivMod
<1>5. seen' \in [Threads -> Int] /\ seen'[Worker] = seen[Worker] /\ seen'[t] = b % M
  BY <1>2, <1>4, ThreadAssumption DEF IInv, Types, Threads
<1>6. Types' /\ Held' /\ Items' /\ Slots(b)'
      /\ \A u \in Thieves \ {t} : pc[u] = "idle" /\ pc'[u] = "idle"
  BY <1>1, <1>2, <1>3, <1>5, ThiefKeeps
<1>7. pc'[Worker] = pc[Worker] /\ pc'[t] = "claim" /\ (Lowered' <=> Lowered)
  BY <1>2, ThiefGoes DEF IInv
<1>8. ~Claimed'
  BY <1>6, <1>7 DEF Claimed
<1>9. Cursors(b)'
  BY <1>1, <1>2, <1>4, <1>5, <1>6, <1>7, <1>8 DEF Cursors, High, Low
<1> QED
  BY <1>6, <1>9 DEF IInv

LEMMA ClaimTailStep ==
  ASSUME IInv, NEW t \in Thieves, ClaimTail(t)
  PROVE  IInv'
<1>1. PICK b \in Int : Cursors(b) /\ Slots(b)
  BY DEF IInv
<1>2. /\ pc[t] = "claim" /\ lock' = lock /\ Goto(t, "check")
      /\ "check" \in ThiefPc \ {"steal"} /\ "check" # "idle"
      /\ tail' = Add(seen[t], 1)
      /\ UNCHANGED <<buf, mask, head, operation, seen, deque>>
  BY DEF ClaimTail, ThiefPc
<1>3. lock = t
  BY <1>2, OnlyHolder DEF IInv
<1>4. Types' /\ Held' /\ Items' /\ Slots(b)'
      /\ \A u \in Thieves \ {t} : pc[u] = "idle" /\ pc'[u] = "idle"
  BY <1>1, <1>2, <1>3, ThiefKeeps DEF IInv, Types
<1>5. pc'[Worker] = pc[Worker] /\ pc'[t] = "check" /\ (Lowered' <=> Lowered)
  BY <1>2, ThiefGoes DEF IInv
<1>6. tail' = (b + 1) % M /\ seen[t] = b % M
  <2>1. seen[t] = b % M
    BY <1>1, <1>2 DEF Cursors
  <2> QED
    BY <1>2, <2>1, Moved
<1>7. Claimed'
  BY <1>5 DEF Claimed
<1>8. Cursors(b)'
  BY <1>1, <1>2, <1>4, <1>5, <1>6, <1>7 DEF Cursors, High, Low
<1> QED
  BY <1>4, <1>8 DEF IInv

\* The worker lowers its cursor before it looks at the thief's, so the two
\* do not take the same item.
LEMMA LookAtHeadStep ==
  ASSUME IInv, NEW t \in Thieves, LookAtHead(t)
  PROVE  IInv'
<1>1. PICK b \in Int : Cursors(b) /\ Slots(b)
  BY DEF IInv
<1> DEFINE l == IF Difference(head, seen[t]) > 0 THEN "steal" ELSE "restore"
<1>2. /\ pc[t] = "check" /\ Goto(t, l) /\ l \in ThiefPc /\ l \in {"steal", "restore"}
      /\ UNCHANGED <<buf, mask, head, tail, lock, operation, seen, deque>>
  BY DEF LookAtHead, ThiefPc
<1>3. lock = t /\ \A u \in Thieves \ {t} : pc[u] = "idle"
  BY <1>2, OnlyHolder DEF IInv
<1>4. ASSUME l = "steal"
      PROVE  Len(deque) > IF pc[Worker] = "pop" THEN 1 ELSE 0
  <2>1. seen[t] = b % M
    BY <1>1, <1>2 DEF Cursors
  <2>2. Difference(head, b % M) > 0
    BY <1>4, <2>1
  <2>3. Len(deque) \in Nat /\ High(b) - b > 0
    BY <1>1, <2>2, Apart DEF IInv
  <2> QED
    BY <2>3 DEF High, Lowered
<1> HIDE DEF l
<1>5. /\ pc' \in [Threads -> WorkerPc \cup ThiefPc]
      /\ pc'[Worker] = pc[Worker] /\ pc'[t] = l
      /\ \A u \in Thieves \ {t} : pc'[u] = pc[u]
      /\ \A u \in Thieves : pc'[u] \in ThiefPc
      /\ (Lowered' <=> Lowered)
  BY <1>2, ThiefGoes DEF IInv
<1>6. Types'
  BY <1>2, <1>5, SameTypes DEF IInv, Types
<1>7. Held'
  BY <1>2, <1>3, <1>5 DEF IInv, Held
<1>8. Items'
  BY <1>2, <1>3, <1>4, <1>5 DEF IInv, Items, Size
<1>9. Claimed /\ Claimed'
  BY <1>2, <1>5 DEF Claimed
<1>10. Cursors(b)' /\ Slots(b)'
  BY <1>1, <1>2, <1>3, <1>5, <1>9, SameSlots DEF Cursors, High, Low
<1> QED
  BY <1>6, <1>7, <1>8, <1>10 DEF IInv

\* What TakeStolen reads, and what is left.
LEMMA StealTakes ==
  ASSUME IInv, NEW t \in Thieves, TakeStolen(t), NEW b \in Int, Cursors(b), Slots(b)
  PROVE  /\ deque # <<>> /\ deque' = Tail(deque) /\ deque' \in Seq(Ops) /\ Len(deque) \in Nat
         /\ Len(deque') = Len(deque) - 1 /\ \A n \in 1..Len(deque') : deque'[n] = deque[n + 1]
<1>1. pc[t] = "steal" /\ deque' = RemoveFirst(deque, buf[Slot(seen[t])])
  BY DEF TakeStolen
<1>2. /\ deque \in Seq(Ops) /\ Once(deque) /\ Len(deque) \in Nat /\ Len(deque) > 0 /\ deque # <<>>
      /\ 1 \in 1..Len(deque)
  <2>1. deque \in Seq(Ops) /\ Once(deque) /\ Len(deque) \in Nat /\ Len(deque) > 0
    BY <1>1 DEF IInv, Types, Items
  <2> QED
    BY <2>1
<1>3. seen[t] = b % M
  BY <1>1 DEF Cursors
<1>4. Slot(seen[t]) = (b + 1 - 1) % Size
  BY <1>3, SlotOf DEF IInv
<1>5. buf[Slot(seen[t])] = deque[1]
  BY <1>2, <1>4 DEF Slots
<1>6. deque' = Tail(deque)
  BY <1>1, <1>2, <1>5, TakenAtTheFront
<1>7. /\ Tail(deque) \in Seq(Ops) /\ Len(Tail(deque)) = Len(deque) - 1
      /\ \A n \in 1..(Len(deque) - 1) : Tail(deque)[n] = deque[n + 1]
  BY <1>2, TakenAtTheFront
<1> QED
  BY <1>2, <1>6, <1>7

LEMMA TakeStolenStep ==
  ASSUME IInv, NEW t \in Thieves, TakeStolen(t)
  PROVE  IInv'
<1>1. PICK b \in Int : Cursors(b) /\ Slots(b)
  BY DEF IInv
<1>2. /\ pc[t] = "steal" /\ lock' = Nobody /\ Goto(t, "idle") /\ "idle" \in ThiefPc
      /\ UNCHANGED <<buf, mask, head, tail, operation, seen>>
  BY DEF TakeStolen, ThiefPc
<1>3. lock = t /\ \A u \in Thieves \ {t} : pc[u] = "idle"
  BY <1>2, OnlyHolder DEF IInv
<1>4. /\ pc' \in [Threads -> WorkerPc \cup ThiefPc]
      /\ pc'[Worker] = pc[Worker] /\ pc'[t] = "idle"
      /\ \A u \in Thieves \ {t} : pc'[u] = pc[u]
      /\ \A u \in Thieves : pc'[u] \in ThiefPc
      /\ (Lowered' <=> Lowered)
  BY <1>2, ThiefGoes DEF IInv
<1>5. \A u \in Thieves : pc'[u] = "idle"
  BY <1>3, <1>4
<1>6. /\ deque # <<>> /\ deque' = Tail(deque) /\ deque' \in Seq(Ops) /\ Len(deque) \in Nat
      /\ Len(deque') = Len(deque) - 1 /\ \A n \in 1..Len(deque') : deque'[n] = deque[n + 1]
  BY <1>1, StealTakes
<1>7. Types'
  BY <1>2, <1>4, <1>6, SameTypes DEF IInv, Types
<1>8. Held'
  BY <1>2, <1>5, ThreadAssumption DEF Held, Nobody
<1>9. Items'
  <2>1. Once(deque') /\ \A x \in Ops : Has(deque', x) => Has(deque, x)
    BY <1>6, TailHas DEF IInv, Types, Items
  <2>2. pc[Worker] = "pop" => Len(deque') > 0
    BY <1>2, <1>6 DEF IInv, Items
  <2>3. Len(deque') <= Size' /\ (pc[Worker] = "write" => Len(deque') < Size')
    BY <1>2, <1>6, Sizes DEF IInv, Items, Size
  <2> QED
    BY <1>2, <1>4, <1>5, <2>1, <2>2, <2>3 DEF IInv, Items
<1>10. ~Claimed' /\ Claimed
  BY <1>2, <1>5 DEF Claimed
<1>11. Cursors(b + 1)'
  <2>1. Low(b + 1)' = b + 1 /\ Low(b) = b + 1
    BY <1>10 DEF Low
  <2>2. High(b + 1)' = High(b) /\ (b + 1) + Len(deque') = b + Len(deque)
    BY <1>4, <1>6 DEF High
  <2> QED
    BY <1>1, <1>2, <1>4, <1>5, <2>1, <2>2 DEF Cursors
<1>12. Slots(b + 1)'
  <2> SUFFICES ASSUME NEW n \in 1..Len(deque') PROVE buf'[(b + 1 + n - 1) % Size'] = deque'[n]
    BY DEF Slots
  <2>1. n + 1 \in 1..Len(deque) /\ b + 1 + n - 1 = b + (n + 1) - 1
    BY <1>6
  <2> QED
    BY <1>1, <1>2, <1>6, <2>1 DEF Slots, Size
<1> QED
  BY <1>7, <1>8, <1>9, <1>11, <1>12 DEF IInv

LEMMA RestoreTailStep ==
  ASSUME IInv, NEW t \in Thieves, RestoreTail(t)
  PROVE  IInv'
<1>1. PICK b \in Int : Cursors(b) /\ Slots(b)
  BY DEF IInv
<1>2. /\ pc[t] = "restore" /\ lock' = Nobody /\ Goto(t, "idle") /\ "idle" \in ThiefPc \ {"steal"}
      /\ tail' = seen[t] /\ UNCHANGED <<buf, mask, head, operation, seen, deque>>
  BY DEF RestoreTail, ThiefPc
<1>3. lock = t
  BY <1>2, OnlyHolder DEF IInv
<1>4. Types' /\ Held' /\ Items' /\ Slots(b)'
      /\ \A u \in Thieves \ {t} : pc[u] = "idle" /\ pc'[u] = "idle"
  BY <1>1, <1>2, <1>3, ThiefKeeps DEF IInv, Types
<1>5. pc'[Worker] = pc[Worker] /\ pc'[t] = "idle" /\ (Lowered' <=> Lowered)
  BY <1>2, ThiefGoes DEF IInv
<1>6. ~Claimed' /\ seen[t] = b % M
  BY <1>1, <1>2, <1>4, <1>5 DEF Claimed, Cursors
<1>7. Cursors(b)'
  BY <1>1, <1>2, <1>4, <1>5, <1>6 DEF Cursors, High, Low
<1> QED
  BY <1>4, <1>7 DEF IInv

-----------------------------------------------------------------------------
(* The theorems.                                                           *)

LEMMA InitInvariant == Init => IInv
<1> SUFFICES ASSUME Init PROVE IInv
  OBVIOUS
<1>1. /\ Size = InitialSize /\ mask \in Nat /\ mask = InitialSize - 1
      /\ head = 0 /\ tail = 0 /\ lock = Nobody /\ operation = NoOp /\ deque = <<>>
      /\ buf = [i \in 0..(InitialSize - 1) |-> NoOp]
      /\ pc = [t \in Threads |-> "idle"] /\ seen = [t \in Threads |-> 0]
  BY SizeAssumption DEF Init, Size
<1>2. Len(deque) = 0 /\ deque \in Seq(Ops)
  BY <1>1
<1>3. \A t \in Threads : pc[t] = "idle"
  BY <1>1
<1>4. Worker \in Threads /\ \A t \in Thieves : t \in Threads
  BY DEF Threads
<1>5. Types
  BY <1>1, <1>2, <1>3, <1>4, SizeAssumption DEF Types, WorkerPc, ThiefPc
<1>6. Held /\ Items
  <2>1. Held
    BY <1>1, <1>3, <1>4, ThreadAssumption DEF Held, Nobody
  <2>2. Items
    BY <1>1, <1>2, <1>3, <1>4, Sizes, <1>5 DEF Items, Once
  <2> QED
    BY <2>1, <2>2
<1>7. Cursors(0) /\ Slots(0)
  <2>1. ~Claimed /\ ~Lowered
    BY <1>3, <1>4 DEF Claimed, Lowered
  <2>2. 0 % M = 0
    <3>1. 0 = (M * 0) + 0 /\ 0 \in 0..(M - 1)
      BY Powers
    <3> QED
      BY <3>1, Powers, Unique
  <2>3. Low(0) = 0 /\ High(0) = 0
    BY <1>2, <2>1 DEF Low, High
  <2> QED
    BY <1>1, <1>2, <1>3, <1>4, <2>2, <2>3 DEF Cursors, Slots
<1> QED
  BY <1>5, <1>6, <1>7 DEF IInv

LEMMA Step == IInv /\ [Next]_vars => IInv'
<1> SUFFICES ASSUME IInv, [Next]_vars PROVE IInv'
  OBVIOUS
<1>1. CASE Enqueue
  BY <1>1, BeginEnqueueStep, WriteSlotStep, GrowStep, EnqueueFailsStep DEF Enqueue
<1>2. CASE LocalPop
  BY <1>2, BeginPopStep, ClaimHeadStep, LookAtTailStep, SettleStep, PopStep DEF LocalPop
<1>3. ASSUME NEW t \in Thieves, StealAttempt(t) PROVE IInv'
  BY <1>3, LockForStealStep, NothingToStealStep, SeeItemStep, ClaimTailStep, LookAtHeadStep,
     TakeStolenStep, RestoreTailStep DEF StealAttempt
<1>4. CASE UNCHANGED vars
  BY SMTT(60), <1>4 DEF vars, IInv, Types, Held, Items, Once, Has, Cursors, Slots, High, Low, Claimed,
              Lowered, Size
<1> QED
  BY <1>1, <1>2, <1>3, <1>4 DEF Next

(* The cursors, the slots and the places of the threads fit together for   *)
(* every width of the cursors, with b items ever stolen: the tail is at b, *)
(* or one further while a thief claims; the head is Len(deque) further, or *)
(* one short of it while the worker claims.                                *)
THEOREM Consistent == Spec => []IInv
BY InitInvariant, Step, PTL DEF Spec

(* Neither a failed steal, a lost race for the last item, growing nor the  *)
(* wrapping of the cursors loses, repeats or moves an item.                *)
THEOREM SlotsHold == Spec => []SlotsHoldTheDeque
<1>1. IInv => SlotsHoldTheDeque
  <2> SUFFICES ASSUME IInv, Resting PROVE
         /\ Difference(head, tail) = Len(deque)
         /\ \A n \in 1..Len(deque) : buf[Slot(Add(tail, n - 1))] = deque[n]
    BY DEF SlotsHoldTheDeque
  <2>1. PICK b \in Int : Cursors(b) /\ Slots(b)
    BY DEF IInv
  <2>2. ~Claimed /\ ~Lowered
    BY NoHolder DEF IInv, Resting, Claimed, Lowered
  <2>3. /\ Low(b) = b /\ High(b) = b + Len(deque) /\ Len(deque) \in Nat
        /\ Difference(head, tail) = Len(deque)
    BY <2>1, <2>2, Apart DEF IInv, Low, High
  <2>4. ASSUME NEW n \in 1..Len(deque) PROVE buf[Slot(Add(tail, n - 1))] = deque[n]
    <3>1. n - 1 \in Int /\ b + (n - 1) = b + n - 1 /\ b + n - 1 \in Int
      BY <2>3
    <3>2. Add(tail, n - 1) = (b + n - 1) % M
      BY <2>1, <2>3, <3>1, Moved DEF Cursors
    <3>3. Slot(Add(tail, n - 1)) = (b + n - 1) % Size
      BY <3>1, <3>2, SlotOf DEF IInv
    <3> QED
      BY <2>1, <3>3 DEF Slots
  <2> QED
    BY <2>3, <2>4
<1> QED
  BY <1>1, Consistent, PTL

(* The worker takes the youngest item and a thief the oldest, however      *)
(* their claims interleave.                                                *)
THEOREM EachTakesFromItsEnd == Spec => TakesFromItsEnd
<1> DEFINE A == \A t \in Threads :
                   (pc[t] \in {"pop", "steal"} /\ pc'[t] = "idle") =>
                       /\ deque # <<>>
                       /\ deque' = IF t = Worker THEN Front(deque) ELSE Tail(deque)
<1>1. IInv /\ [Next]_vars => [A]_vars
  <2> SUFFICES ASSUME IInv, Next, NEW u \in Threads, pc[u] \in {"pop", "steal"}, pc'[u] = "idle"
               PROVE  /\ deque # <<>>
                      /\ deque' = IF u = Worker THEN Front(deque) ELSE Tail(deque)
    BY DEF vars
  <2>1. PICK b \in Int : Cursors(b) /\ Slots(b)
    BY DEF IInv
  <2>2. /\ u = Worker => pc[u] = "pop"
        /\ u # Worker => u \in Thieves /\ pc[u] = "steal"
    BY DEF IInv, Types, Threads, WorkerPc, ThiefPc
  <2>3. CASE u = Worker
    <3>1. pc'[Worker] # pc[Worker]
      BY <2>2, <2>3
    <3>2. ASSUME NEW t \in Thieves, StealAttempt(t) PROVE FALSE
      <4>1. \E l \in ThiefPc : Goto(t, l)
        BY <3>2 DEF StealAttempt, LockForSteal, NothingToSteal, SeeItem, ClaimTail,
           LookAtHead, TakeStolen, RestoreTail, ThiefPc
      <4> QED
        BY <3>1, <4>1, ThiefGoes DEF IInv
    <3>3. Pop
      BY <2>2, <2>3, <3>2 DEF Next, Enqueue, LocalPop, BeginEnqueue, WriteSlot, Grow, EnqueueFails,
         BeginPop, ClaimHead, LookAtTail, Settle
    <3> QED
      BY <2>1, <2>3, <3>3, PopTakes
  <2>4. CASE u # Worker
    <3>1. u \in Thieves /\ pc[u] = "steal" /\ pc'[u] # pc[u]
      BY <2>2, <2>4
    <3>2. ASSUME NEW t \in Thieves, StealAttempt(t) PROVE TakeStolen(u)
      <4>1. t = u
        BY <3>1, <3>2 DEF StealAttempt, LockForSteal, NothingToSteal, SeeItem, ClaimTail,
           LookAtHead, TakeStolen, RestoreTail, Goto, IInv, Types
      <4> QED
        BY <3>1, <3>2, <4>1 DEF StealAttempt, LockForSteal, NothingToSteal, SeeItem, ClaimTail,
           LookAtHead, RestoreTail
    <3>3. ~Enqueue /\ ~LocalPop
      BY <3>1, <2>4, ThreadAssumption DEF Enqueue, LocalPop, BeginEnqueue, WriteSlot, Grow, Enqueued,
         EnqueueFails, BeginPop, ClaimHead, LookAtTail, Settle, Pop, Goto, IInv, Types
    <3> QED
      BY <2>1, <2>4, <3>1, <3>2, <3>3, StealTakes DEF Next
  <2> QED
    BY <2>3, <2>4
<1> QED
  BY <1>1, Consistent, PTL DEF Spec, TakesFromItsEnd
=============================================================================
