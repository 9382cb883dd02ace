------------------------------ MODULE Iteration ------------------------------
(***************************************************************************)
(* Induction over the natural numbers, and functions that iterate a step,  *)
(* for the proofs about loops: a loop of the code that goes through a list *)
(* is a function over 0..n whose value at i is a step from that at i - 1.  *)
(* The facts are about sets and functions only, so that they can be cited  *)
(* with the sets and functions at hand.  Then what lists hold.             *)
(***************************************************************************)
EXTENDS Integers, SequencesExt, SequenceTheorems, WellFoundedInduction, TLAPS

\* A set of natural numbers has a smallest element: the loops count from zero.
LEMMA SmallestOf ==
  ASSUME NEW T, T \subseteq Nat, T # {}
  PROVE  \E x \in T : \A y \in T : x <= y
<1> DEFINE R == {ss \in Nat \X Nat : ss[1] < ss[2]}
<1>1. IsWellFoundedOn(R, Nat)
  BY NatLessThanWellFounded, Zenon DEF OpToRel
<1>2. PICK x \in T : \A y \in T : ~ (<<y, x>> \in R)
  BY <1>1, WFMin, Zenon
<1>3. ASSUME NEW y \in T PROVE x <= y
  <2>1. x \in Nat /\ y \in Nat
    OBVIOUS
  <2>2. ~ (y < x)
    BY <1>2, <2>1
  <2>3. QED
    BY <2>1, <2>2
<1>4. QED
  BY <1>3

\* What holds before the first turn of a loop, and after each turn if it held before
\* it, holds after every turn.
LEMMA EveryTurn ==
  ASSUME NEW n \in Nat, NEW G, 0 \in G, \A i \in 1..n : i - 1 \in G => i \in G
  PROVE  \A i \in 0..n : i \in G
<1> DEFINE B == (0..n) \ G
<1>1. SUFFICES ASSUME B # {} PROVE FALSE
  OBVIOUS
<1>2. PICK x \in B : \A y \in B : x <= y
  <2>1. B \subseteq Nat
    OBVIOUS
  <2>2. QED
    BY <1>1, <2>1, SmallestOf
<1>3. x # 0 /\ x \in 1..n
  BY <1>2
<1>4. x - 1 \notin B /\ x - 1 \in 0..n
  BY <1>2, <1>3
<1>5. QED
  BY <1>2, <1>3, <1>4

\* The states g of n turns of a loop that starts with b and makes the step F.
IsRun(g, b, F, n) == \A i \in 0..n : g[i] = IF i = 0 THEN b ELSE F[<<g[i - 1], i>>]

\* A loop over the states of S has a run.
LEMMA RunExists ==
  ASSUME NEW S, NEW F \in [S \X Nat -> S], NEW b \in S, NEW n \in Nat
  PROVE  \E g \in [0..n -> S] : IsRun(g, b, F, n)
<1> DEFINE Good(g, k) == \A i \in 0..k : g[i] = IF i = 0 THEN b ELSE F[<<g[i - 1], i>>]
           G == {k \in Nat : \E g \in [0..k -> S] : Good(g, k)}
<1>1. 0 \in G
  <2>1. [i \in 0..0 |-> b] \in [0..0 -> S] /\ Good([i \in 0..0 |-> b], 0)
    OBVIOUS
  <2>2. QED
    BY <2>1
<1>2. ASSUME NEW k \in 1..n, k - 1 \in G PROVE k \in G
  <2>1. PICK g \in [0..(k - 1) -> S] : Good(g, k - 1)
    BY <1>2
  <2> DEFINE h == [i \in 0..k |-> IF i = k THEN F[<<g[k - 1], k>>] ELSE g[i]]
  <2>2. h \in [0..k -> S]
    OBVIOUS
  <2>3. ASSUME NEW i \in 0..k
        PROVE  h[i] = IF i = 0 THEN b ELSE F[<<h[i - 1], i>>]
    <3>1. CASE i = k
      <4>1. i # 0 /\ h[i - 1] = g[k - 1]
        BY <3>1
      <4>2. QED
        BY <3>1, <4>1
    <3>2. CASE i # k
      <4>1. i \in 0..(k - 1) /\ h[i] = g[i]
        BY <3>2
      <4>2. i # 0 => h[i - 1] = g[i - 1]
        BY <4>1
      <4>3. QED
        BY <2>1, <4>1, <4>2
    <3>3. QED
      BY <3>1, <3>2
  <2>4. k \in Nat
    OBVIOUS
  <2>5. Good(h, k)
    BY <2>3
  <2> HIDE DEF h, Good
  <2>6. QED
    BY <2>2, <2>4, <2>5
<1> HIDE DEF G
<1>3. n \in G
  BY <1>1, <1>2, EveryTurn
<1>4. QED
  BY <1>3 DEF G, IsRun

-----------------------------------------------------------------------------
(* Lists: what they hold.                                                  *)

LEMMA InToSet ==
  ASSUME NEW S, NEW l \in Seq(S)
  PROVE  /\ ToSet(l) \subseteq S
         /\ \A i \in 1..Len(l) : l[i] \in ToSet(l)
         /\ \A x \in ToSet(l) : \E i \in 1..Len(l) : x = l[i]
<1>1. DOMAIN l = 1..Len(l)
  OBVIOUS
<1>2. QED
  BY <1>1 DEF ToSet

LEMMA ToSetAppend ==
  ASSUME NEW S, NEW l \in Seq(S), NEW x \in S
  PROVE  ToSet(Append(l, x)) = ToSet(l) \cup {x}
<1>1. /\ Append(l, x) \in Seq(S) /\ Len(Append(l, x)) = Len(l) + 1
      /\ Append(l, x)[Len(l) + 1] = x
      /\ \A i \in 1..Len(l) : Append(l, x)[i] = l[i]
  OBVIOUS
<1>2. Len(l) \in Nat
  OBVIOUS
<1> DEFINE a == Append(l, x)
<1> HIDE DEF a
<1>3. a \in Seq(S) /\ Len(a) = Len(l) + 1 /\ a[Len(l) + 1] = x
      /\ \A i \in 1..Len(l) : a[i] = l[i]
  BY <1>1 DEF a
<1>4. ASSUME NEW y \in ToSet(a) PROVE y \in ToSet(l) \cup {x}
  <2>1. PICK i \in 1..Len(a) : y = a[i]
    BY <1>3, InToSet, Zenon
  <2>2. i \in 1..Len(l) \/ i = Len(l) + 1
    BY <1>2, <1>3
  <2>3. QED
    BY <2>1, <2>2, <1>3, InToSet
<1>5. ASSUME NEW y \in ToSet(l) \cup {x} PROVE y \in ToSet(a)
  <2>1. CASE y = x
    <3>1. Len(l) + 1 \in 1..Len(a)
      BY <1>2, <1>3
    <3>2. QED
      BY <2>1, <3>1, <1>3, InToSet
  <2>2. CASE y \in ToSet(l)
    <3>1. PICK i \in 1..Len(l) : y = l[i]
      BY <2>2, InToSet, Zenon
    <3>2. i \in 1..Len(a)
      BY <1>2, <1>3
    <3>3. QED
      BY <3>1, <3>2, <1>3, InToSet
  <2>3. QED
    BY <1>5, <2>1, <2>2
<1>6. QED
  BY <1>4, <1>5 DEF a

LEMMA ToSetConcat ==
  ASSUME NEW S, NEW l \in Seq(S), NEW m \in Seq(S)
  PROVE  ToSet(l \o m) = ToSet(l) \cup ToSet(m)
<1> DEFINE a == l \o m
<1>1. /\ a \in Seq(S) /\ Len(a) = Len(l) + Len(m)
      /\ \A i \in 1..(Len(l) + Len(m)) : a[i] = IF i <= Len(l) THEN l[i] ELSE m[i - Len(l)]
  BY ConcatProperties
<1>2. Len(l) \in Nat /\ Len(m) \in Nat
  OBVIOUS
<1> HIDE DEF a
<1>3. ASSUME NEW y \in ToSet(a) PROVE y \in ToSet(l) \cup ToSet(m)
  <2>1. PICK i \in 1..Len(a) : y = a[i]
    BY <1>1, InToSet, Zenon
  <2>2. CASE i <= Len(l)
    <3>1. i \in 1..Len(l) /\ y = l[i]
      BY <1>1, <1>2, <2>1, <2>2
    <3>2. QED
      BY <3>1, InToSet
  <2>3. CASE i > Len(l)
    <3>1. i - Len(l) \in 1..Len(m) /\ y = m[i - Len(l)]
      BY <1>1, <1>2, <2>1, <2>3
    <3>2. QED
      BY <3>1, InToSet
  <2>4. QED
    BY <1>2, <2>2, <2>3
<1>4. ASSUME NEW y \in ToSet(l) \cup ToSet(m) PROVE y \in ToSet(a)
  <2>1. CASE y \in ToSet(l)
    <3>1. PICK i \in 1..Len(l) : y = l[i]
      BY <2>1, InToSet, Zenon
    <3>2. i \in 1..Len(a) /\ a[i] = y
      BY <1>1, <1>2, <3>1
    <3>3. QED
      BY <3>2, <1>1, InToSet
  <2>2. CASE y \in ToSet(m)
    <3>1. PICK i \in 1..Len(m) : y = m[i]
      BY <2>2, InToSet, Zenon
    <3>2. Len(l) + i \in 1..Len(a) /\ ~(Len(l) + i <= Len(l)) /\ (Len(l) + i) - Len(l) = i
      BY <1>1, <1>2
    <3>3. a[Len(l) + i] = y
      BY <1>1, <3>1, <3>2
    <3>4. QED
      BY <3>2, <3>3, <1>1, InToSet
  <2>3. QED
    BY <1>4, <2>1, <2>2
<1>5. QED
  BY <1>3, <1>4 DEF a

LEMMA HeadAndTail ==
  ASSUME NEW S, NEW l \in Seq(S), l # << >>
  PROVE  /\ Head(l) \in ToSet(l) /\ ToSet(Tail(l)) \subseteq ToSet(l)
         /\ <<Head(l)>> \o Tail(l) = l
<1>1. /\ Len(l) \in Nat \ {0} /\ Head(l) = l[1] /\ Tail(l) \in Seq(S)
      /\ Len(Tail(l)) = Len(l) - 1
      /\ \A i \in 1..Len(Tail(l)) : Tail(l)[i] = l[i + 1]
  BY EmptySeq, HeadTailProperties
<1>2. Head(l) \in ToSet(l)
  BY <1>1, InToSet
<1>3. ASSUME NEW x \in ToSet(Tail(l)) PROVE x \in ToSet(l)
  <2> DEFINE t == Tail(l)
  <2>0. t \in Seq(S)
    BY <1>1
  <2> HIDE DEF t
  <2>1. PICK i \in 1..Len(t) : x = t[i]
    <3>1. x \in ToSet(t)
      BY <1>3 DEF t
    <3>2. QED
      BY <2>0, <3>1, InToSet, Zenon
  <2>2. i + 1 \in 1..Len(l) /\ x = l[i + 1]
    BY <1>1, <2>1 DEF t
  <2>3. QED
    BY <2>2, InToSet
<1>4. <<Head(l)>> \o Tail(l) = l
  <2> DEFINE h == <<Head(l)>>
             t == Tail(l)
             a == h \o t
  <2>1. h \in Seq(S) /\ Len(h) = 1 /\ h[1] = l[1]
    BY <1>1
  <2>2. t \in Seq(S) /\ Len(t) = Len(l) - 1 /\ \A i \in 1..Len(t) : t[i] = l[i + 1]
    BY <1>1
  <2> HIDE DEF h, t
  <2>3. /\ a \in Seq(S) /\ Len(a) = Len(h) + Len(t)
        /\ \A i \in 1..(Len(h) + Len(t)) : a[i] = IF i <= Len(h) THEN h[i] ELSE t[i - Len(h)]
    <3> HIDE DEF a
    <3>1. h \in Seq(S) /\ t \in Seq(S)
      BY <2>1, <2>2
    <3>2. QED
      BY <3>1, ConcatProperties, Zenon DEF a
  <2> HIDE DEF a
  <2>4. Len(a) = Len(l)
    BY <1>1, <2>1, <2>2, <2>3
  <2>5. ASSUME NEW i \in 1..Len(l) PROVE a[i] = l[i]
    <3>1. CASE i = 1
      BY <1>1, <2>1, <2>2, <2>3, <3>1
    <3>2. CASE i # 1
      <4>1. i - 1 \in 1..Len(t) /\ ~(i <= 1) /\ (i - 1) + 1 = i
        BY <1>1, <2>2, <3>2
      <4>2. QED
        BY <1>1, <2>1, <2>2, <2>3, <4>1
    <3>3. QED
      BY <3>1, <3>2
  <2>6. a = l
    BY <2>3, <2>4, <2>5, SeqEqual
  <2>7. QED
    BY <2>6 DEF a, h, t
<1>5. QED
  BY <1>2, <1>3, <1>4

LEMMA RemoveFirstKeeps ==
  ASSUME NEW S, NEW l \in Seq(S), NEW e
  PROVE  RemoveFirst(l, e) \in Seq(S) /\ ToSet(RemoveFirst(l, e)) \subseteq ToSet(l)
<1>1. CASE \A i \in 1..Len(l) : l[i] # e
  BY <1>1 DEF RemoveFirst
<1>2. CASE \E i \in 1..Len(l) : l[i] = e
  <2> DEFINE I == {i \in 1..Len(l) : l[i] = e}
             k == CHOOSE x \in I : \A y \in I : x <= y
  <2>1. RemoveFirst(l, e) = SubSeq(l, 1, k - 1) \o SubSeq(l, k + 1, Len(l))
    BY <1>2 DEF RemoveFirst, RemoveAt, SelectInSeq, Min
  <2>2. Len(l) \in Nat
    OBVIOUS
  <2>3. I \subseteq Nat /\ I # {}
    BY <1>2
  <2>4. k \in I
    <3>1. \E x \in I : \A y \in I : x <= y
      <4> HIDE DEF I, k
      <4>1. QED
        BY <2>3, SmallestOf
    <3>2. QED
      BY <3>1
  <2>5. k \in 1..Len(l)
    BY <2>4
  <2> HIDE DEF k
  <2> DEFINE a == SubSeq(l, 1, k - 1)
             b == SubSeq(l, k + 1, Len(l))
  <2>6. \A i \in 1..(k - 1) : l[i] \in ToSet(l)
    <3>1. \A i \in 1..(k - 1) : i \in 1..Len(l)
      BY <2>2, <2>5
    <3>2. QED
      BY <3>1, InToSet
  <2>7. \A i \in (k + 1)..Len(l) : l[i] \in ToSet(l)
    <3>1. \A i \in (k + 1)..Len(l) : i \in 1..Len(l)
      BY <2>2, <2>5
    <3>2. QED
      BY <3>1, InToSet
  <2>8. a \in Seq(ToSet(l)) /\ b \in Seq(ToSet(l))
    <3>1. 1 \in Int /\ k - 1 \in Int /\ k + 1 \in Int /\ Len(l) \in Int
      BY <2>2, <2>5
    <3>2. a \in Seq(ToSet(l))
      BY <3>1, <2>6, SubSeqProperties, Zenon
    <3>3. b \in Seq(ToSet(l))
      BY <3>1, <2>7, SubSeqProperties, Zenon
    <3>4. QED
      BY <3>2, <3>3
  <2> HIDE DEF a, b
  <2>9. a \o b \in Seq(ToSet(l))
    BY <2>8
  <2>10. ToSet(l) \subseteq S
    BY InToSet
  <2> DEFINE c == a \o b
  <2> HIDE DEF c
  <2>11. c \in Seq(ToSet(l))
    BY <2>9 DEF c
  <2>12. c \in Seq(S) /\ ToSet(c) \subseteq ToSet(l)
    BY <2>10, <2>11, InToSet, SeqMonotonic
  <2>13. QED
    BY <2>1, <2>12 DEF c, a, b
<1>3. QED
  BY <1>1, <1>2

\* No element twice.
Distinct(l) == \A i, k \in 1..Len(l) : i # k => l[i] # l[k]

LEMMA RemoveFirstIs ==
  ASSUME NEW S, NEW l \in Seq(S), NEW e, \E i \in 1..Len(l) : l[i] = e
  PROVE  LET c == RemoveFirst(l, e)
         IN \E k \in 1..Len(l) :
              /\ l[k] = e /\ Len(c) = Len(l) - 1
              /\ \A i \in 1..Len(c) : c[i] = IF i < k THEN l[i] ELSE l[i + 1]
<1> DEFINE I == {i \in 1..Len(l) : l[i] = e}
           k == CHOOSE x \in I : \A y \in I : x <= y
           a == SubSeq(l, 1, k - 1)
           b == SubSeq(l, k + 1, Len(l))
           c == a \o b
<1>1. RemoveFirst(l, e) = c
  BY DEF RemoveFirst, RemoveAt, SelectInSeq, Min
<1>2. Len(l) \in Nat /\ I \subseteq Nat /\ I # {}
  OBVIOUS
<1>3. k \in I
  <2>1. \E x \in I : \A y \in I : x <= y
    <3> HIDE DEF I, k
    <3>1. QED
      BY <1>2, SmallestOf
  <2>2. QED
    BY <2>1
<1>4. k \in 1..Len(l) /\ l[k] = e
  BY <1>3
<1> HIDE DEF I, k
<1>5. \A i \in 1..Len(l) : l[i] \in S
  OBVIOUS
<1>6. /\ a \in Seq(S) /\ Len(a) = k - 1 /\ \A i \in 1..(k - 1) : a[i] = l[i]
  <2>1. 1 \in Int /\ k - 1 \in Int /\ \A i \in 1..(k - 1) : l[i] \in S
    BY <1>2, <1>4, <1>5
  <2>2. /\ a \in Seq(S)
        /\ Len(a) = IF 1 <= k - 1 THEN (k - 1) - 1 + 1 ELSE 0
        /\ \A i \in 1..((k - 1) - 1 + 1) : a[i] = l[1 + i - 1]
    BY <2>1, SubSeqProperties
  <2> HIDE DEF a
  <2>3. Len(a) = k - 1
    BY <1>4, <2>2
  <2>4. ASSUME NEW i \in 1..(k - 1) PROVE a[i] = l[i]
    <3>1. i \in 1..((k - 1) - 1 + 1) /\ 1 + i - 1 = i
      BY <1>4
    <3>2. QED
      BY <2>2, <3>1
  <2>5. QED
    BY <2>2, <2>3, <2>4
<1>7. /\ b \in Seq(S) /\ Len(b) = Len(l) - k /\ \A i \in 1..(Len(l) - k) : b[i] = l[k + i]
  <2>1. k + 1 \in Int /\ Len(l) \in Int /\ \A i \in (k + 1)..Len(l) : l[i] \in S
    BY <1>2, <1>4, <1>5
  <2>2. /\ b \in Seq(S)
        /\ Len(b) = IF k + 1 <= Len(l) THEN Len(l) - (k + 1) + 1 ELSE 0
        /\ \A i \in 1..(Len(l) - (k + 1) + 1) : b[i] = l[(k + 1) + i - 1]
    BY <2>1, SubSeqProperties
  <2> HIDE DEF b
  <2>3. Len(b) = Len(l) - k
    BY <1>2, <1>4, <2>2
  <2>4. ASSUME NEW i \in 1..(Len(l) - k) PROVE b[i] = l[k + i]
    <3>1. i \in 1..(Len(l) - (k + 1) + 1) /\ (k + 1) + i - 1 = k + i
      BY <1>2, <1>4
    <3>2. QED
      BY <2>2, <3>1
  <2>5. QED
    BY <2>2, <2>3, <2>4
<1> HIDE DEF a, b
<1>8. /\ Len(c) = Len(a) + Len(b)
      /\ \A i \in 1..(Len(a) + Len(b)) : c[i] = IF i <= Len(a) THEN a[i] ELSE b[i - Len(a)]
  BY <1>6, <1>7, ConcatProperties, Zenon
<1> HIDE DEF c
<1>9. Len(c) = Len(l) - 1
  BY <1>2, <1>4, <1>6, <1>7, <1>8
<1>10. ASSUME NEW i \in 1..Len(c) PROVE c[i] = IF i < k THEN l[i] ELSE l[i + 1]
  <2>1. i \in 1..(Len(a) + Len(b))
    BY <1>8
  <2>2. CASE i < k
    <3>1. i \in 1..(k - 1) /\ i <= Len(a)
      BY <1>4, <1>6, <2>2
    <3>2. QED
      BY <1>6, <1>8, <2>1, <2>2, <3>1
  <2>3. CASE ~(i < k)
    <3>1. ~(i <= Len(a)) /\ i - Len(a) \in 1..(Len(l) - k) /\ k + (i - Len(a)) = i + 1
      BY <1>2, <1>4, <1>6, <1>9, <2>3
    <3>2. QED
      BY <1>7, <1>8, <2>1, <2>3, <3>1
  <2>4. QED
    BY <2>2, <2>3
<1>11. QED
  BY <1>1, <1>4, <1>9, <1>10

\* A list without doubles has none when one is taken away, who is not in it any more.
LEMMA RemoveFirstDistinct ==
  ASSUME NEW S, NEW l \in Seq(S), NEW e, Distinct(l)
  PROVE  LET c == RemoveFirst(l, e)
         IN Distinct(c) /\ \A i \in 1..Len(c) : c[i] # e
<1>1. CASE \A i \in 1..Len(l) : l[i] # e
  <2>1. RemoveFirst(l, e) = l
    BY <1>1 DEF RemoveFirst
  <2>2. QED
    BY <1>1, <2>1
<1>2. CASE \E i \in 1..Len(l) : l[i] = e
  <2> DEFINE c == RemoveFirst(l, e)
  <2>1. PICK k \in 1..Len(l) :
          /\ l[k] = e /\ Len(c) = Len(l) - 1
          /\ \A i \in 1..Len(c) : c[i] = IF i < k THEN l[i] ELSE l[i + 1]
    BY <1>2, RemoveFirstIs
  <2>2. Len(l) \in Nat
    OBVIOUS
  <2> HIDE DEF c
  <2> DEFINE at(i) == IF i < k THEN i ELSE i + 1
  <2>3. \A i \in 1..Len(c) : at(i) \in 1..Len(l) /\ at(i) # k /\ c[i] = l[at(i)]
    BY <2>1, <2>2
  <2>4. \A i, m \in 1..Len(c) : i # m => at(i) # at(m)
    BY <2>1, <2>2
  <2> HIDE DEF at
  <2>5. Distinct(c)
    BY <2>3, <2>4 DEF Distinct
  <2>6. \A i \in 1..Len(c) : c[i] # e
    BY <2>1, <2>3 DEF Distinct
  <2>7. QED
    BY <2>5, <2>6 DEF c
<1>3. QED
  BY <1>1, <1>2

\* A list in which nothing is twice keeps that when a new element is put behind it.
LEMMA DistinctAppend ==
  ASSUME NEW S, NEW l \in Seq(S), NEW e \in S, Distinct(l),
         \A i \in 1..Len(l) : l[i] # e
  PROVE  Distinct(Append(l, e))
<1> DEFINE b == Append(l, e)
<1>1. /\ Len(l) \in Nat /\ Len(b) = Len(l) + 1 /\ b[Len(l) + 1] = e
      /\ \A i \in 1..Len(l) : b[i] = l[i]
  OBVIOUS
<1> HIDE DEF b
<1>2. ASSUME NEW i \in 1..Len(b), NEW h \in 1..Len(b), i # h PROVE b[i] # b[h]
  <2>1. i \in 1..Len(l) \/ i = Len(l) + 1
    BY <1>1
  <2>2. h \in 1..Len(l) \/ h = Len(l) + 1
    BY <1>1
  <2>3. QED
    BY <1>1, <1>2, <2>1, <2>2 DEF Distinct
<1>3. Distinct(b)
  BY <1>2 DEF Distinct
<1>4. QED
  BY <1>3 DEF b
=============================================================================
