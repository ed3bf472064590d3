----------------------------- MODULE ListLemmas -----------------------------
(***************************************************************************)
(* What the proofs about several components need of lists and counts: a    *)
(* stack reversed into a queue, a list that holds nothing twice, a set     *)
(* that one element joins or leaves, and the stacks of threads that        *)
(* coroutines run on.                                                      *)
(***************************************************************************)
EXTENDS Integers, FiniteSets, Sequences, SequencesExt,
        FiniteSetTheorems, SequenceTheorems, TLAPS

Has(s, x) == \E i \in 1..Len(s) : s[i] = x
Once(s) == \A i, j \in 1..Len(s) : s[i] = s[j] => i = j

-----------------------------------------------------------------------------
(* Stacks and queues.                                                      *)

LEMMA ReverseType ==
  ASSUME NEW S, NEW s \in Seq(S)
  PROVE  Reverse(s) \in Seq(S) /\ Len(Reverse(s)) = Len(s)
<1>1. \A i \in 1..Len(s) : s[(Len(s) - i) + 1] \in S
  OBVIOUS
<1> QED
  BY <1>1 DEF Reverse

LEMMA ReverseEmpty == Reverse(<<>>) = <<>>
BY DEF Reverse

LEMMA PushedStack ==
  ASSUME NEW S, NEW s \in Seq(S), NEW e \in S
  PROVE  /\ <<e>> \o s \in Seq(S)
         /\ <<e>> \o s # <<>>
         /\ Reverse(<<e>> \o s) = Append(Reverse(s), e)
<1> DEFINE p == <<e>> \o s
<1>1. p \in Seq(S) /\ Len(p) = Len(s) + 1 /\ p[1] = e
      /\ \A i \in 1..Len(s) : p[i + 1] = s[i]
  OBVIOUS
<1>2. Reverse(s) \in Seq(S) /\ Len(Reverse(s)) = Len(s)
  BY ReverseType
<1>3. Reverse(p) \in Seq(S) /\ Len(Reverse(p)) = Len(p)
  BY <1>1, ReverseType
<1>4. Append(Reverse(s), e) \in Seq(S) /\ Len(Append(Reverse(s), e)) = Len(s) + 1
  BY <1>2
<1>5. ASSUME NEW i \in 1..(Len(s) + 1)
      PROVE Reverse(p)[i] = Append(Reverse(s), e)[i]
  <2>1. Reverse(p)[i] = p[(Len(s) + 1 - i) + 1]
    BY <1>1 DEF Reverse
  <2>2. CASE i = Len(s) + 1
    BY <2>1, <2>2, <1>1, <1>2
  <2>3. CASE i # Len(s) + 1
    <3>1. i \in 1..Len(s) /\ (Len(s) + 1 - i) \in 1..Len(s)
      BY <2>3
    <3>2. Append(Reverse(s), e)[i] = Reverse(s)[i]
      BY <3>1, <1>2
    <3>3. Reverse(s)[i] = s[(Len(s) - i) + 1]
      BY <3>1 DEF Reverse
    <3>4. p[(Len(s) + 1 - i) + 1] = s[Len(s) + 1 - i]
      BY <3>1, <1>1
    <3> QED
      BY <2>1, <3>1, <3>2, <3>3, <3>4
  <2> QED
    BY <2>2, <2>3
<1>6. p # <<>>
  BY <1>1
<1>7. Reverse(p) = Append(Reverse(s), e)
  BY <1>1, <1>3, <1>4, <1>5, SeqEqual
<1> QED
  BY <1>1, <1>6, <1>7

LEMMA HeadOfConcat ==
  ASSUME NEW S, NEW s \in Seq(S), NEW t \in Seq(S), s # <<>>
  PROVE  s \o t # <<>> /\ Head(s \o t) = Head(s) /\ Tail(s \o t) = Tail(s) \o t
<1>1. Head(s) \in S /\ Tail(s) \in Seq(S) /\ s = <<Head(s)>> \o Tail(s)
  BY HeadTailProperties
<1>2. s \o t = <<Head(s)>> \o (Tail(s) \o t)
  BY <1>1
<1>3. Len(s \o t) = Len(s) + Len(t) /\ s \o t \in Seq(S) /\ Len(s) > 0
  OBVIOUS
<1> QED
  BY <1>1, <1>2, <1>3

-----------------------------------------------------------------------------
(* Lists that hold nothing twice.                                          *)

LEMMA AppendKeepsOnce ==
  ASSUME NEW S, NEW q \in Seq(S), NEW e \in S,
         \A i, j \in 1..Len(q) : q[i] = q[j] => i = j,
         \A i \in 1..Len(q) : q[i] # e
  PROVE  /\ \A i, j \in 1..Len(Append(q, e)) : Append(q, e)[i] = Append(q, e)[j] => i = j
         /\ \A x \in S : (\E i \in 1..Len(Append(q, e)) : Append(q, e)[i] = x)
                         <=> x = e \/ \E i \in 1..Len(q) : q[i] = x
<1> DEFINE r == Append(q, e)
<1>1. /\ Len(r) = Len(q) + 1 /\ Len(q) \in Nat /\ r[Len(q) + 1] = e
      /\ \A i \in 1..Len(q) : r[i] = q[i]
  BY AppendProperties
<1>2. \A i \in 1..Len(r) : i \in 1..Len(q) \/ i = Len(q) + 1
  BY <1>1
<1>3. Len(q) + 1 \in 1..Len(r) /\ \A i \in 1..Len(q) : i \in 1..Len(r)
  BY <1>1
<1> HIDE DEF r
<1>4. \A i, j \in 1..Len(r) : r[i] = r[j] => i = j
  BY <1>1, <1>2
<1>5. \A x \in S : (\E i \in 1..Len(r) : r[i] = x) <=> x = e \/ \E i \in 1..Len(q) : q[i] = x
  BY <1>1, <1>2, <1>3
<1> QED
  BY <1>4, <1>5 DEF r

LEMMA TailKeepsOnce ==
  ASSUME NEW S, NEW q \in Seq(S), q # <<>>,
         \A i, j \in 1..Len(q) : q[i] = q[j] => i = j
  PROVE  /\ \A i, j \in 1..Len(Tail(q)) : Tail(q)[i] = Tail(q)[j] => i = j
         /\ \A x \in S : (\E i \in 1..Len(Tail(q)) : Tail(q)[i] = x)
                         <=> x # Head(q) /\ \E i \in 1..Len(q) : q[i] = x
<1> DEFINE r == Tail(q)
<1>1. /\ Len(q) \in Nat /\ Len(q) > 0 /\ Len(r) = Len(q) - 1 /\ Head(q) = q[1]
      /\ \A i \in 1..Len(r) : r[i] = q[i + 1]
  BY HeadTailProperties
<1>2. \A i \in 1..Len(r) : i + 1 \in 1..Len(q) /\ i + 1 # 1
  BY <1>1
<1>3. \A i \in 1..Len(q) : i = 1 \/ (i - 1 \in 1..Len(r) /\ (i - 1) + 1 = i)
  BY <1>1
<1>4. 1 \in 1..Len(q)
  BY <1>1
<1> HIDE DEF r
<1>5. \A i, j \in 1..Len(r) : r[i] = r[j] => i = j
  <2> SUFFICES ASSUME NEW i \in 1..Len(r), NEW j \in 1..Len(r), r[i] = r[j]
               PROVE  i = j
    OBVIOUS
  <2>1. i + 1 = j + 1
    BY <1>1, <1>2
  <2> QED
    BY <2>1
<1>6. ASSUME NEW x \in S
      PROVE  (\E i \in 1..Len(r) : r[i] = x) <=> x # Head(q) /\ \E i \in 1..Len(q) : q[i] = x
  <2>1. ASSUME NEW i \in 1..Len(r), r[i] = x
        PROVE  x # Head(q) /\ \E k \in 1..Len(q) : q[k] = x
    <3>1. q[i + 1] = x /\ i + 1 \in 1..Len(q) /\ i + 1 # 1
      BY <1>1, <1>2, <2>1
    <3>2. x # q[1]
      BY <1>4, <3>1
    <3> QED
      BY <1>1, <3>1, <3>2
  <2>2. ASSUME x # Head(q), NEW k \in 1..Len(q), q[k] = x
        PROVE  \E i \in 1..Len(r) : r[i] = x
    <3>1. k # 1
      BY <1>1, <2>2
    <3>2. k - 1 \in 1..Len(r) /\ (k - 1) + 1 = k
      BY <1>3, <3>1
    <3>3. r[k - 1] = x
      BY <1>1, <2>2, <3>2
    <3> QED
      BY <3>2, <3>3
  <2> QED
    BY <2>1, <2>2
<1> QED
  BY <1>5, <1>6 DEF r


LEMMA HasIsInSet ==
  ASSUME NEW S, NEW s \in Seq(S), NEW x
  PROVE  x \in ToSet(s) <=> Has(s, x)
BY DEF ToSet, Has

LEMMA AppendHas ==
  ASSUME NEW S, NEW s \in Seq(S), NEW e \in S
  PROVE  /\ \A x \in S : Has(Append(s, e), x) <=> x = e \/ Has(s, x)
         /\ Once(s) /\ ~Has(s, e) => Once(Append(s, e))
<1> DEFINE r == Append(s, e)
<1>1. /\ Len(r) = Len(s) + 1 /\ Len(s) \in Nat /\ r[Len(s) + 1] = e
      /\ \A i \in 1..Len(s) : r[i] = s[i]
  BY AppendProperties
<1>2. /\ \A i \in 1..Len(r) : i \in 1..Len(s) \/ i = Len(s) + 1
      /\ Len(s) + 1 \in 1..Len(r) /\ \A i \in 1..Len(s) : i \in 1..Len(r)
  BY <1>1
<1> HIDE DEF r
<1>3. \A x \in S : Has(r, x) <=> x = e \/ Has(s, x)
  BY <1>1, <1>2 DEF Has
<1>4. ASSUME Once(s), ~Has(s, e) PROVE Once(r)
  BY <1>1, <1>2, <1>4, AppendKeepsOnce DEF Once, Has, r
<1> QED
  BY <1>3, <1>4 DEF r

LEMMA TailHas ==
  ASSUME NEW S, NEW s \in Seq(S), s # <<>>, Once(s)
  PROVE  /\ Head(s) \in S /\ Has(s, Head(s)) /\ Once(Tail(s))
         /\ \A x \in S : Has(Tail(s), x) <=> x # Head(s) /\ Has(s, x)
<1>1. Head(s) \in S /\ Head(s) = s[1] /\ 1 \in 1..Len(s)
  BY HeadTailProperties, EmptySeq
<1>2. Has(s, Head(s))
  BY <1>1 DEF Has
<1>3. /\ \A i, j \in 1..Len(Tail(s)) : Tail(s)[i] = Tail(s)[j] => i = j
      /\ \A x \in S : (\E i \in 1..Len(Tail(s)) : Tail(s)[i] = x)
                      <=> x # Head(s) /\ \E i \in 1..Len(s) : s[i] = x
  BY TailKeepsOnce DEF Once
<1> QED
  BY <1>1, <1>2, <1>3, Zenon DEF Has, Once

LEMMA FrontHas ==
  ASSUME NEW S, NEW s \in Seq(S), s # <<>>, Once(s)
  PROVE  /\ Last(s) \in S /\ Has(s, Last(s)) /\ Once(Front(s))
         /\ \A x \in S : Has(Front(s), x) <=> x # Last(s) /\ Has(s, x)
<1>1. Len(s) \in Nat /\ Len(s) > 0 /\ Last(s) = s[Len(s)] /\ Len(s) \in 1..Len(s)
  BY EmptySeq DEF Last
<1>2. Last(s) \in S /\ Has(s, Last(s))
  BY <1>1 DEF Has
<1>3. Len(Front(s)) = Len(s) - 1 /\ \A i \in 1..(Len(s) - 1) : Front(s)[i] = s[i]
  <2>1. PICK m \in Nat : m = Len(s) - 1
    BY <1>1
  <2>2. m <= Len(s)
    BY <1>1, <2>1
  <2>3. Len(SubSeq(s, 1, m)) = m
    BY <2>2
  <2>4. \A i \in 1..m : SubSeq(s, 1, m)[i] = s[i]
    BY <2>2
  <2> QED
    BY <2>1, <2>3, <2>4 DEF Front
<1>4. \A i \in 1..Len(s) : i \in 1..(Len(s) - 1) \/ i = Len(s)
  BY <1>1
<1>5. \A i \in 1..(Len(s) - 1) : i \in 1..Len(s) /\ i # Len(s)
  BY <1>1
<1>6. Once(Front(s))
  BY <1>3, <1>5 DEF Once
<1>7. \A x \in S : Has(Front(s), x) <=> x # Last(s) /\ Has(s, x)
  BY <1>1, <1>3, <1>4, <1>5 DEF Has, Once
<1> QED
  BY <1>2, <1>6, <1>7

\* A queue whose younger part is kept as a stack.
LEMMA TwoParts ==
  ASSUME NEW S, NEW old \in Seq(S), NEW new \in Seq(S)
  PROVE  /\ old \o Reverse(new) \in Seq(S)
         /\ Len(old \o Reverse(new)) = Len(old) + Len(new)
         /\ \A x \in S : Has(old \o Reverse(new), x) <=> Has(old, x) \/ Has(new, x)
         /\ Once(old \o Reverse(new)) =>
               Once(old) /\ Once(new) /\ \A x \in S : ~(Has(old, x) /\ Has(new, x))
<1> DEFINE r == Reverse(new)
           q == old \o r
<1>1. /\ r \in Seq(S) /\ Len(r) = Len(new) /\ Len(new) \in Nat /\ Len(old) \in Nat
      /\ \A i \in 1..Len(new) : r[i] = new[Len(new) - i + 1]
  BY ReverseType DEF Reverse
<1> HIDE DEF r
<1>2. /\ q \in Seq(S) /\ Len(q) = Len(old) + Len(new)
      /\ \A i \in 1..Len(old) : q[i] = old[i]
      /\ \A i \in 1..Len(new) : q[Len(old) + i] = new[Len(new) - i + 1]
  <2>1. /\ q \in Seq(S) /\ Len(q) = Len(old) + Len(r)
        /\ \A i \in 1..(Len(old) + Len(r)) :
              q[i] = IF i <= Len(old) THEN old[i] ELSE r[i - Len(old)]
    <3>1. r \in Seq(S)
      BY <1>1
    <3> QED
      BY <3>1, ConcatProperties, Zenon
  <2> HIDE DEF q
  <2>2. ASSUME NEW i \in 1..Len(new) PROVE q[Len(old) + i] = r[i]
    <3>1. /\ Len(old) + i \in 1..(Len(old) + Len(r)) /\ ~(Len(old) + i <= Len(old))
          /\ Len(old) + i - Len(old) = i
      BY <1>1
    <3> QED
      BY <2>1, <3>1
  <2> QED
    BY <1>1, <2>1, <2>2
<1> HIDE DEF q
<1> DEFINE Place(i) == Len(old) + (Len(new) - i + 1)
<1>3. /\ \A i \in 1..Len(old) : i \in 1..Len(q)
      /\ \A i \in 1..Len(new) : /\ Place(i) \in 1..Len(q) /\ Place(i) > Len(old)
                                /\ q[Place(i)] = new[i]
      /\ \A i \in 1..Len(q) : i \in 1..Len(old) \/ \E j \in 1..Len(new) : i = Place(j)
  <2>1. ASSUME NEW i \in 1..Len(new) PROVE q[Place(i)] = new[i]
    <3>1. Len(new) - i + 1 \in 1..Len(new) /\ Len(new) - (Len(new) - i + 1) + 1 = i
      BY <1>1
    <3> QED
      BY <1>2, <3>1
  <2>2. ASSUME NEW i \in 1..Len(q), i \notin 1..Len(old)
        PROVE  \E j \in 1..Len(new) : i = Place(j)
    <3>1. Len(new) + Len(old) - i + 1 \in 1..Len(new)
          /\ i = Place(Len(new) + Len(old) - i + 1)
      BY <1>1, <1>2, <2>2
    <3> QED
      BY <3>1
  <2> QED
    BY <1>1, <1>2, <2>1, <2>2
<1>4. \A i, j \in 1..Len(new) : Place(i) = Place(j) => i = j
  BY <1>1
<1> HIDE DEF Place
<1>5. \A x \in S : Has(q, x) <=> Has(old, x) \/ Has(new, x)
  <2> SUFFICES ASSUME NEW x \in S PROVE Has(q, x) <=> Has(old, x) \/ Has(new, x)
    OBVIOUS
  <2>1. Has(old, x) \/ Has(new, x) => Has(q, x)
    BY <1>2, <1>3 DEF Has
  <2>2. ASSUME NEW i \in 1..Len(q), q[i] = x PROVE Has(old, x) \/ Has(new, x)
    BY <1>2, <1>3, <2>2 DEF Has
  <2> QED
    BY <2>1, <2>2 DEF Has
<1>6. ASSUME Once(q) PROVE Once(old) /\ Once(new) /\ \A x \in S : ~(Has(old, x) /\ Has(new, x))
  <2>1. Once(old)
    BY <1>2, <1>3, <1>6 DEF Once
  <2>2. Once(new)
    BY <1>3, <1>4, <1>6 DEF Once
  <2>3. ASSUME NEW i \in 1..Len(old), NEW j \in 1..Len(new), old[i] = new[j] PROVE FALSE
    <3>1. i = Place(j)
      BY <1>2, <1>3, <1>6, <2>3 DEF Once
    <3> QED
      BY <1>1, <1>3, <3>1
  <2> QED
    BY <2>1, <2>2, <2>3 DEF Has
<1> QED
  BY <1>2, <1>5, <1>6 DEF q, r

LEMMA ConcatHas ==
  ASSUME NEW S, NEW s \in Seq(S), NEW u \in Seq(S)
  PROVE  /\ s \o u \in Seq(S)
         /\ \A x : Has(s \o u, x) <=> Has(s, x) \/ Has(u, x)
         /\ Once(s) /\ Once(u) /\ (\A x : ~(Has(s, x) /\ Has(u, x))) => Once(s \o u)
<1> DEFINE r == s \o u
<1>1. /\ r \in Seq(S) /\ Len(r) = Len(s) + Len(u) /\ Len(s) \in Nat /\ Len(u) \in Nat
      /\ \A i \in 1..Len(s) : r[i] = s[i]
      /\ \A i \in (Len(s) + 1)..Len(r) : r[i] = u[i - Len(s)] /\ i - Len(s) \in 1..Len(u)
      /\ \A i \in 1..Len(u) : r[i + Len(s)] = u[i] /\ i + Len(s) \in 1..Len(r)
      /\ \A i \in 1..Len(s) : i \in 1..Len(r)
      /\ \A i \in 1..Len(r) : i \in 1..Len(s) \/ i \in (Len(s) + 1)..Len(r)
  OBVIOUS
<1> HIDE DEF r
<1>2. ASSUME NEW x PROVE Has(r, x) <=> Has(s, x) \/ Has(u, x)
  <2>1. ASSUME Has(r, x) PROVE Has(s, x) \/ Has(u, x)
    <3>1. PICK i \in 1..Len(r) : r[i] = x
      BY <2>1 DEF Has
    <3> QED
      BY <1>1, <3>1 DEF Has
  <2>2. Has(s, x) => Has(r, x)
    BY <1>1 DEF Has
  <2>3. Has(u, x) => Has(r, x)
    BY <1>1 DEF Has
  <2> QED
    BY <2>1, <2>2, <2>3
<1>3. ASSUME Once(s), Once(u), \A x : ~(Has(s, x) /\ Has(u, x)),
             NEW i \in 1..Len(r), NEW j \in 1..Len(r), r[i] = r[j]
      PROVE  i = j
  <2>1. CASE i \in 1..Len(s) /\ j \in 1..Len(s)
    BY <1>1, <1>3, <2>1 DEF Once
  <2>2. CASE i \notin 1..Len(s) /\ j \notin 1..Len(s)
    <3>1. i - Len(s) \in 1..Len(u) /\ j - Len(s) \in 1..Len(u) /\ u[i - Len(s)] = u[j - Len(s)]
      BY <1>1, <1>3, <2>2
    <3>2. i - Len(s) = j - Len(s)
      BY <1>3, <3>1 DEF Once
    <3> QED
      BY <1>1, <3>2
  <2>3. ASSUME NEW k \in 1..Len(s), NEW l \in (Len(s) + 1)..Len(r), r[k] = r[l] PROVE FALSE
    <3>1. Has(s, r[k]) /\ Has(u, r[k])
      BY <1>1, <2>3 DEF Has
    <3> QED
      BY <1>3, <3>1
  <2> QED
    BY <1>1, <1>3, <2>1, <2>2, <2>3
<1> QED
  BY <1>1, <1>2, <1>3 DEF r, Once

\* A finite set as a list.
LEMMA SetAsList ==
  ASSUME NEW S, NEW D, D \subseteq S, IsFiniteSet(D)
  PROVE  /\ SetToSeq(D) \in Seq(S) /\ Once(SetToSeq(D))
         /\ \A x : Has(SetToSeq(D), x) <=> x \in D
<1> DEFINE n == Cardinality(D)
<1>1. n \in Nat /\ ExistsBijection(1..n, D)
  BY FS_CardinalityType
<1>2. PICK g \in Bijection(1..n, D) : TRUE
  BY <1>1 DEF ExistsBijection
<1>3. g \in [1..n -> D] /\ IsInjective(g)
  BY <1>2 DEF Bijection, Injection, Surjection
<1> DEFINE f == SetToSeq(D)
<1>4. f \in [1..n -> D] /\ IsInjective(f)
  BY <1>3, Zenon DEF SetToSeq
<1> HIDE DEF f
<1>5. f \in Seq(S) /\ Len(f) = n
  BY <1>1, <1>4
<1>6. Once(f)
  BY <1>4, <1>5 DEF Once, IsInjective
<1>7. \A x \in D : Has(f, x)
  <2>1. f \in Injection(1..n, D)
    BY <1>4 DEF Injection
  <2>2. IsFiniteSet(1..n) /\ Cardinality(1..n) = n
    BY <1>1, FS_Interval
  <2>3. f \in Surjection(1..n, D)
    BY <1>1, <2>1, <2>2, FS_Injection
  <2> QED
    BY <1>5, <2>3 DEF Surjection, Has
<1>8. \A x : Has(f, x) => x \in D
  BY <1>4, <1>5 DEF Has
<1> QED
  BY <1>5, <1>6, <1>7, <1>8 DEF f

-----------------------------------------------------------------------------
(* One element comes, or goes.                                             *)

LEMMA OneMore ==
  ASSUME NEW S, NEW x, IsFiniteSet(S), x \notin S
  PROVE  /\ IsFiniteSet(S \cup {x}) /\ Cardinality(S) \in Nat
         /\ Cardinality(S \cup {x}) = Cardinality(S) + 1
BY FS_AddElement, FS_CardinalityType

LEMMA OneFewer ==
  ASSUME NEW S, NEW x, IsFiniteSet(S), x \in S
  PROVE  /\ IsFiniteSet(S \ {x}) /\ Cardinality(S \ {x}) \in Nat
         /\ Cardinality(S) = Cardinality(S \ {x}) + 1
<1>1. IsFiniteSet(S \ {x}) /\ (S \ {x}) \cup {x} = S /\ x \notin S \ {x}
  BY FS_RemoveElement
<1> QED
  BY <1>1, OneMore

\* An element is in a list that holds nothing twice once or not at all.
LEMMA OccursOnce ==
  ASSUME NEW S, NEW s \in Seq(S), NEW x, Once(s)
  PROVE  Cardinality({i \in 1..Len(s) : s[i] = x}) = IF Has(s, x) THEN 1 ELSE 0
<1>1. CASE ~Has(s, x)
  <2>1. {i \in 1..Len(s) : s[i] = x} = {}
    BY <1>1 DEF Has
  <2> QED
    BY <1>1, <2>1, FS_EmptySet
<1>2. CASE Has(s, x)
  <2>1. PICK i \in 1..Len(s) : s[i] = x
    BY <1>2 DEF Has
  <2>2. {j \in 1..Len(s) : s[j] = x} = {i}
    BY <2>1 DEF Once
  <2> QED
    BY <1>2, <2>2, FS_Singleton
<1> QED
  BY <1>1, <1>2

-----------------------------------------------------------------------------
(* Coroutines on the stacks of threads: each of those that run is on one   *)
(* stack, once, and those that are suspended are on none.  Here T are the  *)
(* threads, C the coroutines, s their stacks, a where each coroutine       *)
(* stands, one of L, and one of Z while it is suspended.                   *)

OnSome(s, x) == \E t \in DOMAIN s : Has(s[t], x)

OnceInAll(s) ==
    /\ \A t \in DOMAIN s : Once(s[t])
    /\ \A t, u \in DOMAIN s : \A i \in 1..Len(s[t]) : Has(s[u], s[t][i]) => t = u

Scheduled(T, C, L, Z, s, a) ==
    /\ s \in [T -> Seq(C)] /\ a \in [C -> L]
    /\ OnceInAll(s)
    /\ \A c \in C : OnSome(s, c) <=> a[c] \notin Z

LEMMA OneStackEach ==
  ASSUME NEW s
  PROVE  OnceInAll(s) <=> /\ \A t \in DOMAIN s : Once(s[t])
                          /\ \A t, u \in DOMAIN s : \A x : Has(s[t], x) /\ Has(s[u], x) => t = u
BY DEF OnceInAll, Has

LEMMA PushHas ==
  ASSUME NEW S, NEW s \in Seq(S), NEW e \in S
  PROVE  /\ <<e>> \o s \in Seq(S) /\ <<e>> \o s # <<>> /\ Head(<<e>> \o s) = e
         /\ \A x : Has(<<e>> \o s, x) <=> x = e \/ Has(s, x)
         /\ Once(s) /\ ~Has(s, e) => Once(<<e>> \o s)
<1> DEFINE r == <<e>> \o s
<1>1. /\ r \in Seq(S) /\ Len(r) = Len(s) + 1 /\ r[1] = e /\ Len(s) \in Nat
      /\ \A i \in 2..Len(r) : r[i] = s[i - 1] /\ i - 1 \in 1..Len(s)
      /\ \A i \in 1..Len(s) : r[i + 1] = s[i]
  OBVIOUS
<1>2. r # <<>> /\ Head(r) = e
  BY <1>1
<1>3. ASSUME NEW x PROVE Has(r, x) <=> x = e \/ Has(s, x)
  <2>1. ASSUME Has(r, x) PROVE x = e \/ Has(s, x)
    <3>1. PICK i \in 1..Len(r) : r[i] = x
      BY <2>1 DEF Has
    <3>2. i = 1 \/ i \in 2..Len(r)
      BY <1>1, <3>1
    <3> QED
      BY <1>1, <3>1, <3>2 DEF Has
  <2>2. ASSUME Has(s, x) PROVE Has(r, x)
    <3>1. PICK i \in 1..Len(s) : s[i] = x
      BY <2>2 DEF Has
    <3>2. i + 1 \in 1..Len(r) /\ r[i + 1] = x
      BY <1>1, <3>1
    <3> QED
      BY <3>2 DEF Has
  <2>3. 1 \in 1..Len(r)
    BY <1>1
  <2>4. Has(r, e)
    BY <1>1, <2>3 DEF Has
  <2> QED
    BY <2>1, <2>2, <2>4
<1>4. ASSUME Once(s), ~Has(s, e), NEW i \in 1..Len(r), NEW j \in 1..Len(r), r[i] = r[j]
      PROVE  i = j
  <2>1. \A k \in 1..Len(s) : s[k] # e
    BY <1>4 DEF Has
  <2>2. (i = 1 \/ i \in 2..Len(r)) /\ (j = 1 \/ j \in 2..Len(r))
    BY <1>1
  <2>3. CASE i = 1 \/ j = 1
    BY <1>1, <1>4, <2>1, <2>2, <2>3
  <2>4. CASE i \in 2..Len(r) /\ j \in 2..Len(r)
    <3>1. i - 1 \in 1..Len(s) /\ j - 1 \in 1..Len(s) /\ s[i - 1] = s[j - 1]
      BY <1>1, <1>4, <2>4
    <3>2. i - 1 = j - 1
      BY <1>4, <3>1 DEF Once
    <3> QED
      BY <3>2
  <2> QED
    BY <2>2, <2>3, <2>4
<1> QED
  BY <1>1, <1>2, <1>3, <1>4 DEF Once, r

LEMMA OneStackChanges ==
  ASSUME NEW T, NEW C, NEW s \in [T -> Seq(C)], OnceInAll(s), NEW t \in T,
         NEW n \in Seq(C), Once(n), \A x : Has(n, x) => Has(s[t], x) \/ ~OnSome(s, x)
  PROVE  /\ [s EXCEPT ![t] = n] \in [T -> Seq(C)]
         /\ OnceInAll([s EXCEPT ![t] = n])
         /\ \A x : OnSome([s EXCEPT ![t] = n], x)
                   <=> Has(n, x) \/ (OnSome(s, x) /\ ~Has(s[t], x))
<1> DEFINE r == [s EXCEPT ![t] = n]
<1>1. r \in [T -> Seq(C)] /\ DOMAIN r = T /\ DOMAIN s = T
  OBVIOUS
<1>2. r[t] = n /\ \A u \in T \ {t} : r[u] = s[u]
  OBVIOUS
<1> HIDE DEF r
<1>3. ASSUME NEW u \in T, NEW v \in T, NEW x, Has(r[u], x), Has(r[v], x) PROVE u = v
  <2>1. CASE u # t /\ v # t
    BY <1>1, <1>2, <1>3, <2>1, OneStackEach
  <2>2. ASSUME NEW w \in T \ {t}, Has(n, x), Has(s[w], x) PROVE FALSE
    <3>1. OnSome(s, x)
      BY <1>1, <2>2 DEF OnSome
    <3> QED
      BY <1>1, <2>2, <3>1, OneStackEach
  <2> QED
    BY <1>2, <1>3, <2>1, <2>2
<1>4. OnceInAll(r)
  <2>1. \A u \in T : Once(r[u])
    BY <1>1, <1>2 DEF OnceInAll
  <2> QED
    BY <1>1, <1>3, <2>1, OneStackEach
<1>5. ASSUME NEW x PROVE OnSome(r, x) <=> Has(n, x) \/ (OnSome(s, x) /\ ~Has(s[t], x))
  <2>1. ASSUME OnSome(r, x), ~Has(n, x) PROVE OnSome(s, x) /\ ~Has(s[t], x)
    <3>1. PICK u \in T : Has(r[u], x)
      BY <1>1, <2>1 DEF OnSome
    <3>2. u # t /\ Has(s[u], x)
      BY <1>2, <2>1, <3>1
    <3> QED
      BY <1>1, <3>2, OneStackEach DEF OnSome
  <2>2. ASSUME OnSome(s, x), ~Has(s[t], x) PROVE OnSome(r, x)
    <3>1. PICK u \in T : Has(s[u], x)
      BY <1>1, <2>2 DEF OnSome
    <3> QED
      BY <1>1, <1>2, <2>2, <3>1 DEF OnSome
  <2>3. Has(n, x) => OnSome(r, x)
    BY <1>1, <1>2 DEF OnSome
  <2> QED
    BY <2>1, <2>2, <2>3
<1> QED
  BY <1>1, <1>4, <1>5 DEF r

\* The coroutine on top of a stack runs.
LEMMA TopRuns ==
  ASSUME NEW T, NEW C, NEW L, NEW Z, NEW s, NEW a, Scheduled(T, C, L, Z, s, a),
         NEW t \in T, s[t] # <<>>
  PROVE  /\ Head(s[t]) \in C /\ a[Head(s[t])] \notin Z /\ Has(s[t], Head(s[t]))
         /\ Once(s[t]) /\ Tail(s[t]) \in Seq(C) /\ Once(Tail(s[t]))
         /\ \A x : Has(Tail(s[t]), x) <=> x # Head(s[t]) /\ Has(s[t], x)
<1>1. s[t] \in Seq(C) /\ Once(s[t]) /\ DOMAIN s = T
  BY DEF Scheduled, OnceInAll
<1>2. /\ Head(s[t]) \in C /\ Has(s[t], Head(s[t])) /\ Once(Tail(s[t]))
      /\ \A x \in C : Has(Tail(s[t]), x) <=> x # Head(s[t]) /\ Has(s[t], x)
  BY <1>1, TailHas
<1>3. Tail(s[t]) \in Seq(C)
  BY <1>1
<1>4. \A x : (Has(Tail(s[t]), x) => x \in C) /\ (Has(s[t], x) => x \in C)
  BY <1>1, <1>3 DEF Has
<1>5. a[Head(s[t])] \notin Z
  BY <1>1, <1>2 DEF Scheduled, OnSome
<1> QED
  BY <1>1, <1>2, <1>3, <1>4, <1>5

\* It goes on, suspends, or resumes another one, below it or in its place.
LEMMA Goes ==
  ASSUME NEW T, NEW C, NEW L, NEW Z, NEW s, NEW a, Scheduled(T, C, L, Z, s, a),
         NEW c \in C, NEW l \in L, a[c] \in Z <=> l \in Z
  PROVE  Scheduled(T, C, L, Z, s, [a EXCEPT ![c] = l])
BY DEF Scheduled

LEMMA Suspends ==
  ASSUME NEW T, NEW C, NEW L, NEW Z, NEW s, NEW a, Scheduled(T, C, L, Z, s, a),
         NEW t \in T, s[t] # <<>>, NEW l \in L, l \in Z
  PROVE  Scheduled(T, C, L, Z, [s EXCEPT ![t] = Tail(@)], [a EXCEPT ![Head(s[t])] = l])
<1> DEFINE c == Head(s[t])
           r == [s EXCEPT ![t] = Tail(s[t])]
           b == [a EXCEPT ![c] = l]
<1>1. /\ c \in C /\ a[c] \notin Z /\ Has(s[t], c) /\ Tail(s[t]) \in Seq(C) /\ Once(Tail(s[t]))
      /\ \A x : Has(Tail(s[t]), x) <=> x # c /\ Has(s[t], x)
  BY TopRuns
<1>2. s \in [T -> Seq(C)] /\ OnceInAll(s) /\ a \in [C -> L] /\ DOMAIN s = T
  BY DEF Scheduled
<1>3. /\ r \in [T -> Seq(C)] /\ OnceInAll(r)
      /\ \A x : OnSome(r, x) <=> Has(Tail(s[t]), x) \/ (OnSome(s, x) /\ ~Has(s[t], x))
  BY <1>1, <1>2, OneStackChanges
<1>4. \A x : Has(s[t], x) => OnSome(s, x)
  BY <1>2 DEF OnSome
<1>5. \A x : OnSome(r, x) <=> x # c /\ OnSome(s, x)
  BY <1>1, <1>3, <1>4
<1>6. b \in [C -> L] /\ b[c] = l /\ \A x \in C : x # c => b[x] = a[x]
  BY <1>1, <1>2
<1>7. \A x \in C : OnSome(r, x) <=> b[x] \notin Z
  BY <1>5, <1>6 DEF Scheduled
<1>8. [s EXCEPT ![t] = Tail(@)] = r
  OBVIOUS
<1> QED
  BY <1>3, <1>6, <1>7, <1>8 DEF Scheduled

LEMMA Calls ==
  ASSUME NEW T, NEW C, NEW L, NEW Z, NEW s, NEW a, Scheduled(T, C, L, Z, s, a),
         NEW t \in T, s[t] # <<>>, NEW l \in L \ Z,
         NEW o \in C, a[o] \in Z, NEW m \in L \ Z
  PROVE  Scheduled(T, C, L, Z, [s EXCEPT ![t] = <<o>> \o @],
                   [a EXCEPT ![Head(s[t])] = l, ![o] = m])
<1> DEFINE c == Head(s[t])
           n == <<o>> \o s[t]
           r == [s EXCEPT ![t] = n]
           b == [a EXCEPT ![c] = l, ![o] = m]
<1>1. c \in C /\ a[c] \notin Z
  BY TopRuns
<1>2. s \in [T -> Seq(C)] /\ OnceInAll(s) /\ a \in [C -> L] /\ DOMAIN s = T
  BY DEF Scheduled
<1>3. ~OnSome(s, o) /\ s[t] \in Seq(C) /\ Once(s[t])
  BY <1>2 DEF Scheduled, OnceInAll
<1>4. ~Has(s[t], o)
  BY <1>2, <1>3 DEF OnSome
<1>5. n \in Seq(C) /\ Once(n) /\ \A x : Has(n, x) <=> x = o \/ Has(s[t], x)
  BY <1>3, <1>4, PushHas
<1>6. /\ r \in [T -> Seq(C)] /\ OnceInAll(r)
      /\ \A x : OnSome(r, x) <=> Has(n, x) \/ (OnSome(s, x) /\ ~Has(s[t], x))
  <2> HIDE DEF n
  <2>1. \A x : Has(n, x) => Has(s[t], x) \/ ~OnSome(s, x)
    BY <1>3, <1>5
  <2> QED
    BY <1>2, <1>5, <2>1, OneStackChanges
<1>7. \A x : Has(s[t], x) => OnSome(s, x)
  BY <1>2 DEF OnSome
<1>8. \A x : OnSome(r, x) <=> x = o \/ OnSome(s, x)
  <2> HIDE DEF n, r
  <2> QED
    BY <1>5, <1>6, <1>7
<1>9. /\ b \in [C -> L] /\ b[c] \notin Z /\ b[o] \notin Z
      /\ \A x \in C : x # c /\ x # o => b[x] = a[x]
  BY <1>1, <1>2
<1>10. \A x \in C : OnSome(r, x) <=> b[x] \notin Z
  <2> HIDE DEF n, r, b
  <2> QED
    BY <1>1, <1>8, <1>9 DEF Scheduled
<1>11. [s EXCEPT ![t] = <<o>> \o @] = r
  OBVIOUS
<1> QED
  BY <1>6, <1>9, <1>10, <1>11 DEF Scheduled

LEMMA Transfers ==
  ASSUME NEW T, NEW C, NEW L, NEW Z, NEW s, NEW a, Scheduled(T, C, L, Z, s, a),
         NEW t \in T, s[t] # <<>>, NEW l \in L, l \in Z,
         NEW o \in C, a[o] \in Z, NEW m \in L \ Z
  PROVE  Scheduled(T, C, L, Z, [s EXCEPT ![t] = <<o>> \o Tail(@)],
                   [a EXCEPT ![Head(s[t])] = l, ![o] = m])
<1> DEFINE c == Head(s[t])
           n == <<o>> \o Tail(s[t])
           r == [s EXCEPT ![t] = n]
           b == [a EXCEPT ![c] = l, ![o] = m]
<1>1. /\ c \in C /\ a[c] \notin Z /\ Has(s[t], c) /\ Tail(s[t]) \in Seq(C) /\ Once(Tail(s[t]))
      /\ \A x : Has(Tail(s[t]), x) <=> x # c /\ Has(s[t], x)
  BY TopRuns
<1>2. s \in [T -> Seq(C)] /\ OnceInAll(s) /\ a \in [C -> L] /\ DOMAIN s = T
  BY DEF Scheduled
<1>3. ~OnSome(s, o)
  BY <1>2 DEF Scheduled
<1>4. ~Has(s[t], o) /\ ~Has(Tail(s[t]), o)
  BY <1>1, <1>2, <1>3 DEF OnSome
<1>5. n \in Seq(C) /\ Once(n) /\ \A x : Has(n, x) <=> x = o \/ Has(Tail(s[t]), x)
  BY <1>1, <1>4, PushHas
<1>6. /\ r \in [T -> Seq(C)] /\ OnceInAll(r)
      /\ \A x : OnSome(r, x) <=> Has(n, x) \/ (OnSome(s, x) /\ ~Has(s[t], x))
  <2> HIDE DEF n
  <2>1. \A x : Has(n, x) => Has(s[t], x) \/ ~OnSome(s, x)
    BY <1>1, <1>3, <1>5
  <2> QED
    BY <1>2, <1>5, <2>1, OneStackChanges
<1>7. \A x : Has(s[t], x) => OnSome(s, x)
  BY <1>2 DEF OnSome
<1>8. \A x : OnSome(r, x) <=> x = o \/ (x # c /\ OnSome(s, x))
  <2> HIDE DEF n, r, c
  <2> QED
    BY <1>1, <1>3, <1>5, <1>6, <1>7
<1>9. /\ b \in [C -> L] /\ (c # o => b[c] = l) /\ b[o] = m
      /\ \A x \in C : x # c /\ x # o => b[x] = a[x]
  BY <1>1, <1>2
<1>10. \A x \in C : OnSome(r, x) <=> b[x] \notin Z
  <2> HIDE DEF n, r, b, c
  <2> QED
    BY <1>1, <1>8, <1>9 DEF Scheduled
<1>11. [s EXCEPT ![t] = <<o>> \o Tail(@)] = r
  OBVIOUS
<1> QED
  BY <1>6, <1>9, <1>10, <1>11 DEF Scheduled

LEMMA ResumesOn ==
  ASSUME NEW T, NEW C, NEW L, NEW Z, NEW s, NEW a, Scheduled(T, C, L, Z, s, a),
         NEW t \in T, s[t] = <<>>, NEW o \in C, a[o] \in Z, NEW m \in L \ Z
  PROVE  Scheduled(T, C, L, Z, [s EXCEPT ![t] = <<o>>], [a EXCEPT ![o] = m])
<1> DEFINE r == [s EXCEPT ![t] = <<o>>]
           b == [a EXCEPT ![o] = m]
<1>1. s \in [T -> Seq(C)] /\ OnceInAll(s) /\ a \in [C -> L]
  BY DEF Scheduled
<1>2. ~OnSome(s, o)
  BY <1>1 DEF Scheduled
<1>3. <<o>> \in Seq(C) /\ Once(<<o>>) /\ \A x : Has(<<o>>, x) <=> x = o
  BY DEF Once, Has
<1>4. \A x : ~Has(s[t], x)
  BY DEF Has
<1>5. \A x : Has(<<o>>, x) => Has(s[t], x) \/ ~OnSome(s, x)
  BY <1>2, <1>3
<1>6. /\ r \in [T -> Seq(C)] /\ OnceInAll(r)
      /\ \A x : OnSome(r, x) <=> Has(<<o>>, x) \/ (OnSome(s, x) /\ ~Has(s[t], x))
  BY <1>1, <1>3, <1>5, OneStackChanges
<1>7. \A x : OnSome(r, x) <=> x = o \/ OnSome(s, x)
  BY <1>3, <1>4, <1>6
<1>8. b \in [C -> L] /\ b[o] = m /\ \A x \in C : x # o => b[x] = a[x]
  BY <1>1
<1>9. \A x \in C : OnSome(r, x) <=> b[x] \notin Z
  BY <1>7, <1>8 DEF Scheduled
<1> QED
  BY <1>6, <1>8, <1>9 DEF Scheduled

\* How often a coroutine is on the stacks, counted by its places.
LEMMA OnceIsShort ==
  ASSUME NEW S, IsFiniteSet(S), NEW s \in Seq(S), Once(s)
  PROVE  Len(s) \in Nat /\ Len(s) <= Cardinality(S)
<1>1. Len(s) \in Nat /\ s \in [1..Len(s) -> S]
  BY LenProperties
<1>2. s \in Injection(1..Len(s), S)
  BY <1>1 DEF Once, Injection, IsInjective
<1>3. Cardinality(1..Len(s)) <= Cardinality(S)
  BY <1>2, FS_Injection
<1>4. Cardinality(1..Len(s)) = Len(s)
  BY <1>1, FS_Interval
<1> QED
  BY <1>1, <1>3, <1>4

LEMMA RunsOnce ==
  ASSUME NEW T, NEW C, NEW L, NEW Z, NEW s, NEW a, Scheduled(T, C, L, Z, s, a), IsFiniteSet(C),
         NEW c \in C, NEW P,
         \A p : p \in P <=> /\ p \in T \X (1..Cardinality(C))
                           /\ p[2] <= Len(s[p[1]]) /\ s[p[1]][p[2]] = c
  PROVE  Cardinality(P) = IF a[c] \in Z THEN 0 ELSE 1
<1>1. s \in [T -> Seq(C)] /\ OnceInAll(s) /\ DOMAIN s = T /\ Cardinality(C) \in Nat
  BY FS_CardinalityType DEF Scheduled
<1>2. ASSUME NEW t \in T PROVE Len(s[t]) \in Nat /\ Len(s[t]) <= Cardinality(C)
  BY <1>1, OnceIsShort DEF OnceInAll
<1>3. CASE a[c] \in Z
  <2>1. ~OnSome(s, c)
    BY <1>3 DEF Scheduled
  <2>2. \A t \in T : \A i \in 1..Cardinality(C) : ~(i <= Len(s[t]) /\ s[t][i] = c)
    BY <1>1, <1>2, <2>1 DEF OnSome, Has
  <2>3. P = {}
    BY <2>2
  <2> QED
    BY <1>3, <2>3, FS_EmptySet
<1>4. CASE a[c] \notin Z
  <2>1. PICK t \in T : Has(s[t], c)
    BY <1>1, <1>4 DEF Scheduled, OnSome
  <2>2. PICK i \in 1..Len(s[t]) : s[t][i] = c
    BY <2>1 DEF Has
  <2>3. i \in 1..Cardinality(C) /\ i <= Len(s[t])
    BY <1>1, <1>2, <2>2
  <2>4. <<t, i>> \in P
    BY <2>2, <2>3
  <2>5. ASSUME NEW u \in T, NEW j \in 1..Cardinality(C), j <= Len(s[u]), s[u][j] = c
        PROVE  u = t /\ j = i
    <3>1. j \in 1..Len(s[u])
      BY <1>1, <1>2, <2>5
    <3>2. u = t
      BY <1>1, <2>1, <2>5, <3>1 DEF Has, OnceInAll
    <3> QED
      BY <1>1, <2>2, <2>5, <3>1, <3>2 DEF OnceInAll, Once
  <2>6. P = {<<t, i>>}
    BY <2>4, <2>5
  <2> QED
    BY <1>4, <2>6, FS_Singleton
<1> QED
  BY <1>3, <1>4
=============================================================================
